---- MODULE Spec2Model ----
(***************************************************************************)
(* A model of webdav_ss: the WebDAV-to-object-store translation layer.     *)
(*                                                                         *)
(* Strings are sequences of one-character strings, so that the string      *)
(* operations of the source (starts_with, trim_start_matches, format!,     *)
(* split) are computed character by character as the code computes them.   *)
(* A NormalizedPath is such a string.                                      *)
(***************************************************************************)
EXTENDS Integers, Sequences, FiniteSets, TLC

VARIABLES
    bucket,     \* S3 adapter: the object store, key -> body
    uploads,    \* S3 adapter: multipart upload sessions of the store, id -> session
    files,      \* S3 adapter: open file handles, id -> handle
    filesystems, \* Aggregate: the mount table, the registered prefixes
    props,      \* Memory prop storage: key string -> property payload
    enc,        \* EncryptionWrapper: the inner backend's objects and the wrapped handles
    last        \* the last call and what it returned (observation of the caller)

vars == <<bucket, uploads, files, filesystems, props, enc, last>>

\* the state of the components other than the S3 adapter
others == <<filesystems, props, enc>>

----------------------------------------------------------------------------
(* Strings *)

SL == "/"

DotDir == <<".", "d", "i", "r">>

StartsWith(s, p) == Len(p) <= Len(s) /\ SubSeq(s, 1, Len(p)) = p

EndsWith(s, p) == Len(p) <= Len(s) /\ SubSeq(s, Len(s) - Len(p) + 1, Len(s)) = p

DropFirst(s, n) == SubSeq(s, n + 1, Len(s))

DropLast(s, n) == SubSeq(s, 1, Len(s) - n)

\* str::trim_start_matches: removes the pattern as long as the string starts with it
RECURSIVE TrimStartMatches(_, _)
TrimStartMatches(s, p) ==
    IF Len(p) > 0 /\ StartsWith(s, p) THEN TrimStartMatches(DropFirst(s, Len(p)), p) ELSE s

\* str::trim_end_matches
RECURSIVE TrimEndMatches(_, _)
TrimEndMatches(s, p) ==
    IF Len(p) > 0 /\ EndsWith(s, p) THEN TrimEndMatches(DropLast(s, Len(p)), p) ELSE s

\* str::split on one character: the pieces between the separators (always >= 1 piece)
RECURSIVE SplitAcc(_, _, _)
SplitAcc(s, c, cur) ==
    IF s = <<>> THEN <<cur>>
    ELSE IF Head(s) = c THEN <<cur>> \o SplitAcc(Tail(s), c, <<>>)
    ELSE SplitAcc(Tail(s), c, Append(cur, Head(s)))

Split(s, c) == SplitAcc(s, c, <<>>)

----------------------------------------------------------------------------
(* NormalizedPath *)

\* impl From<String> for NormalizedPath
FromString(t) ==
    LET NonEmpty(t1) == IF Len(t1) = 0 THEN <<SL>> ELSE t1
    IN NonEmpty(IF StartsWith(t, <<SL>>) /\ Len(t) > 1 THEN DropFirst(t, 1) ELSE t)

trim_token(token) ==
    LET Front(t1) == IF StartsWith(t1, <<SL>>) THEN DropFirst(t1, 1) ELSE t1
    IN Front(IF EndsWith(token, <<SL>>) THEN DropLast(token, 1) ELSE token)

join_file(self, token) ==
    LET Joined(t) == IF Len(t) = 0 THEN self
                     ELSE IF EndsWith(self, <<SL>>) THEN FromString(self \o t)
                     ELSE FromString(self \o <<SL>> \o t)
    IN Joined(trim_token(token))

join_dir(self, token) ==
    LET Joined(t) == IF Len(t) = 0 THEN self
                     ELSE IF EndsWith(self, <<SL>>) THEN FromString(self \o t \o <<SL>>)
                     ELSE FromString(self \o <<SL>> \o t \o <<SL>>)
    IN Joined(trim_token(token))

\* the fold of parent(): join_dir over the first n pieces, starting from "/"
RECURSIVE FoldJoinDir(_, _, _)
FoldJoinDir(acc, pieces, n) ==
    IF n = 0 THEN acc
    ELSE FoldJoinDir(join_dir(acc, Head(pieces)), Tail(pieces), n - 1)

parent(self) ==
    LET Fold(pieces) == FoldJoinDir(<<SL>>, pieces, Len(pieces) - 1)
    IN Fold(Split(IF EndsWith(self, <<SL>>) THEN TrimEndMatches(self, <<SL>>) ELSE self, SL))

strip_prefix(self, prefix) == FromString(TrimStartMatches(self, prefix))

is_collection(self) == EndsWith(self, <<SL>>)

is_root(self) == is_collection(self) /\ Len(self) = 1

dirs_parent(self) == parent(IF is_collection(self) THEN self ELSE parent(self))

as_file(self) == IF is_collection(self) THEN FromString(TrimEndMatches(self, <<SL>>)) ELSE self

as_dir(self) == IF ~is_collection(self) THEN FromString(self \o <<SL>>) ELSE self

----------------------------------------------------------------------------
(* The object store (S3-compatible), as the adapter's client calls see it.  *)
(* A world w is [objs |-> key -> body, log |-> the mutating calls so far].  *)

\* byte order of the characters used in keys (their ASCII codes)
CharCode(c) ==
    CASE c = "." -> 46 [] c = "/" -> 47
      [] c = "a" -> 97 [] c = "b" -> 98 [] c = "c" -> 99 [] c = "d" -> 100
      [] c = "i" -> 105 [] c = "r" -> 114 [] c = "x" -> 120 [] c = "y" -> 121
      [] OTHER -> 127

\* lexicographic byte order of keys, the order of a listing
RECURSIVE KeyLess(_, _)
KeyLess(s, t) ==
    IF t = <<>> THEN FALSE
    ELSE IF s = <<>> THEN TRUE
    ELSE IF Head(s) = Head(t) THEN KeyLess(Tail(s), Tail(t))
    ELSE CharCode(Head(s)) < CharCode(Head(t))

RECURSIVE SortKeys(_)
SortKeys(S) ==
    IF S = {} THEN <<>>
    ELSE LET m == CHOOSE k \in S : \A o \in S \ {k} : KeyLess(k, o)
         IN <<m>> \o SortKeys(S \ {m})

NewWorld(objs) == [objs |-> objs, log |-> <<>>]

Logged(w, call) == [w EXCEPT !.log = Append(@, call)]

\* HEAD key: the status code
head_object(w, key) == IF key \in DOMAIN w.objs THEN 200 ELSE 404

\* PUT key: stores the body, 200
put_object(w, key, body) ==
    Logged([w EXCEPT !.objs = [k \in DOMAIN w.objs \cup {key} |->
                                  IF k = key THEN body ELSE w.objs[k]]],
           <<"put", key>>)

\* DELETE key: 204 whether or not the key exists
delete_object(w, key) ==
    Logged([w EXCEPT !.objs = [k \in DOMAIN w.objs \ {key} |-> w.objs[k]]],
           <<"delete", key>>)

\* PUT with x-amz-copy-source: 200 and a copy when the source key exists, 404 otherwise
copy_object(w, from, to) ==
    IF from \in DOMAIN w.objs
    THEN [code |-> 200, w |-> Logged([w EXCEPT !.objs = [k \in DOMAIN w.objs \cup {to} |->
                                  IF k = to THEN w.objs[from] ELSE w.objs[k]]],
                                     <<"copy", from, to>>)]
    ELSE [code |-> 404, w |-> Logged(w, <<"copy", from, to>>)]

\* the position of the first delimiter in s, 0 when there is none
RECURSIVE IndexOf(_, _, _)
IndexOf(s, c, i) ==
    IF i > Len(s) THEN 0 ELSE IF s[i] = c THEN i ELSE IndexOf(s, c, i + 1)

\* GET ?prefix=..&delimiter=/ : the common prefixes and the contents, in key order
list(w, prefix, delim) ==
    LET under == {k \in DOMAIN w.objs : StartsWith(k, prefix)}
        cut(k) == IndexOf(DropFirst(k, Len(prefix)), delim, 1)
    IN [common_prefixes |->
            SortKeys({SubSeq(k, 1, Len(prefix) + cut(k)) : k \in {u \in under : cut(u) > 0}}),
        contents |-> SortKeys({k \in under : cut(k) = 0})]

----------------------------------------------------------------------------
(* S3Backend: the adapter's operations over a world.  Each returns          *)
(* [res |-> "Ok" or the FsError, w |-> the world afterwards, ...].          *)

Fail(e, w) == [res |-> e, w |-> w]

Done(w) == [res |-> "Ok", w |-> w]

\* S3MetaData::extract_from_tags: the fields the adapter reads back
S3MetaData(len, path, is_dir) == [len |-> len, path |-> path, is_dir |-> is_dir]

metadata_info(w, path) ==
    LET Found(key) ==
            [res |-> "Ok",
             meta |-> S3MetaData(Len(w.objs[key]), path, EndsWith(key, DotDir))]
        Probe(first) ==
            IF head_object(w, first) = 200 THEN Found(first)
            ELSE IF head_object(w, path) = 200 THEN Found(path)
            ELSE [res |-> "NotFound"]
    IN IF StartsWith(path, <<SL>>) /\ EndsWith(path, <<SL>>)
       THEN [res |-> "Ok", meta |-> S3MetaData(0, <<>>, TRUE)]
       ELSE Probe(join_file(path, DotDir))

\* the entries the stream of read_dir_impl yields for the listed keys
RECURSIVE DirEntries(_, _, _, _)
DirEntries(w, path, keys, sentinel_filter) ==
    IF keys = <<>> THEN <<>>
    ELSE LET Entry(p, m) ==
                 IF sentinel_filter /\ EndsWith(p, DotDir) THEN <<>>
                 ELSE IF m.res # "Ok" THEN <<>>
                 ELSE <<[name |-> strip_prefix(p, path), metadata |-> m.meta]>>
             Key(p) == Entry(p, metadata_info(w, p))
         IN Key(FromString(Head(keys))) \o DirEntries(w, path, Tail(keys), sentinel_filter)

read_dir_impl(w, path) ==
    LET Listed(objects) ==
            [res |-> "Ok",
             entries |-> DirEntries(w, path, objects.common_prefixes, FALSE)
                         \o DirEntries(w, path, objects.contents, TRUE)]
        Checked(meta) ==
            IF meta.res # "Ok" THEN [res |-> meta.res]
            ELSE IF ~meta.meta.is_dir THEN [res |-> "Forbidden"]
            ELSE Listed(list(w, IF EndsWith(path, <<SL>>) /\ Len(path) = 1
                                THEN <<>> ELSE path, SL))
    IN Checked(metadata_info(w, path))

remove_file_impl(w, path, dir_check) ==
    LET Checked(meta) ==
            IF meta.res # "Ok" THEN Fail(meta.res, w)
            ELSE IF meta.meta.is_dir /\ dir_check THEN Fail("Forbidden", w)
            ELSE Done(delete_object(w, path))
    IN Checked(metadata_info(w, path))

remove_dir_impl(w, path) ==
    LET Checked(meta) ==
            IF meta.res # "Ok" THEN Fail(meta.res, w)
            ELSE IF ~meta.meta.is_dir THEN Fail("Forbidden", w)
            ELSE remove_file_impl(w, join_file(path, DotDir), FALSE)
    IN Checked(metadata_info(w, path))

create_dir_impl(w, path) ==
    LET Put(prefix_dir) == Done(put_object(w, prefix_dir, <<>>))
        InParent(pmeta, prefix_dir) ==
            IF pmeta.res # "Ok" THEN Fail(pmeta.res, w)
            ELSE IF ~pmeta.meta.is_dir THEN Fail("Forbidden", w)
            ELSE Put(prefix_dir)
        Checked(meta, prefix_dir) ==
            IF meta.res = "Ok" /\ meta.meta.is_dir THEN Fail("Exists", w)
            ELSE IF EndsWith(path, <<SL>>) /\ StartsWith(path, <<SL>>)
                 THEN Put(prefix_dir)
            ELSE InParent(metadata_info(w, dirs_parent(prefix_dir)), prefix_dir)
    IN Checked(metadata_info(w, path), join_file(path, DotDir))

copy_impl(w, from0, to0) ==
    LET Copied(c) == IF c.code # 200 THEN Fail("GeneralFailure", c.w) ELSE Done(c.w)
        Made(mk, from, to) ==
            IF mk.res # "Ok" THEN mk ELSE Copied(copy_object(mk.w, from, to))
        Parent(par, from, to) ==
            Made(IF metadata_info(w, par).res # "Ok"
                 THEN create_dir_impl(w, par) ELSE Done(w), from, to)
        Keys(from, to) == Parent(parent(to), from, to)
        Target(to1) ==
            Keys(IF is_collection(from0) /\ is_collection(to1)
                 THEN join_file(from0, DotDir) ELSE from0,
                 IF is_collection(from0) /\ is_collection(to1)
                 THEN join_file(to1, DotDir) ELSE to1)
    IN Target(IF metadata_info(w, to0).res # "Ok" /\ ~is_collection(from0)
                 /\ is_collection(to0)
              THEN as_file(to0) ELSE to0)

\* the "for obj in &objects" loop of rename_impl over one listed directory
RECURSIVE RenameCollect(_, _, _, _)
RenameCollect(path, to, entries, acc) ==
    IF entries = <<>> THEN acc
    ELSE LET Add(obj, suffix) ==
                 IF obj.metadata.is_dir
                 THEN [acc EXCEPT !.dirs = Append(@, join_dir(path, suffix)),
                                  !.dirs_to_create = Append(@, join_dir(to, suffix))]
                 ELSE [acc EXCEPT !.paths = Append(@, <<join_file(path, suffix),
                                                        join_file(to, suffix)>>)]
         IN RenameCollect(path, to, Tail(entries),
                          Add(Head(entries), FromString(Head(entries).name)))

\* the "while !dirs.is_empty()" loop of rename_impl.  The world does not change
\* during the traversal, so a traversal that takes more pops than the store has
\* keys is on a cycle and never ends: "Diverges".
RECURSIVE RenameTraverse(_, _, _, _)
RenameTraverse(w, to, acc, fuel) ==
    IF acc.dirs = <<>> THEN [acc EXCEPT !.res = "Ok"]
    ELSE IF fuel = 0 THEN [acc EXCEPT !.res = "Diverges"]
    ELSE LET Listed(path, popped, objects) ==
                 IF objects.res # "Ok" THEN [popped EXCEPT !.res = objects.res]
                 ELSE RenameTraverse(w, to,
                                     RenameCollect(path, to, objects.entries, popped),
                                     fuel - 1)
             Pop(path) ==
                 Listed(path,
                        [acc EXCEPT !.dirs = DropLast(@, 1),
                                    !.dirs_to_remove = Append(@, path)],
                        read_dir_impl(w, path))
         IN Pop(acc.dirs[Len(acc.dirs)])

RECURSIVE CreateDirs(_, _)
CreateDirs(w, dirs) ==
    IF dirs = <<>> THEN Done(w)
    ELSE LET Created(r) == IF r.res # "Ok" THEN r ELSE CreateDirs(r.w, Tail(dirs))
         IN Created(create_dir_impl(w, Head(dirs)))

RECURSIVE MoveFiles(_, _)
MoveFiles(w, paths) ==
    IF paths = <<>> THEN Done(w)
    ELSE LET Removed(d) == IF d.res # "Ok" THEN d ELSE MoveFiles(d.w, Tail(paths))
             Copied(c) == IF c.res # "Ok" THEN c
                          ELSE Removed(remove_file_impl(c.w, Head(paths)[1], TRUE))
         IN Copied(copy_impl(w, Head(paths)[1], Head(paths)[2]))

RECURSIVE RemoveDirs(_, _)
RemoveDirs(w, dirs) ==
    IF dirs = <<>> THEN Done(w)
    ELSE LET Removed(r) == IF r.res # "Ok" THEN r ELSE RemoveDirs(r.w, Tail(dirs))
         IN Removed(remove_dir_impl(w, Head(dirs)))

\* the first state of the traversal of rename_impl
TraverseFrom(w, from, to) ==
    RenameTraverse(w, to,
                   [res |-> "Ok", dirs |-> <<from>>, paths |-> <<>>,
                    dirs_to_remove |-> <<>>, dirs_to_create |-> <<to>>],
                   Cardinality(DOMAIN w.objs) + 2)

\* a rename between collections that creates the destination before it has
\* listed the source; the code must not behave like this
RenameDirCreatingFirst(w0, from, to0) ==
    LET Relocated(t, m) == IF m.res # "Ok" THEN m ELSE RemoveDirs(m.w, t.dirs_to_remove)
        Created(t, c) == IF c.res # "Ok" THEN c ELSE Relocated(t, MoveFiles(c.w, t.paths))
        Traversed(w, t) ==
            IF t.res # "Ok" THEN Fail(t.res, w)
            ELSE Created(t, CreateDirs(w, Tail(t.dirs_to_create)))
        Made(c, to) == IF c.res # "Ok" THEN c ELSE Traversed(c.w, TraverseFrom(c.w, from, to))
    IN Made(create_dir_impl(w0, to0), to0)

\* rename_impl from the point where `from` is a collection
RenameDir(w0, from, to0) ==
    LET Relocated(t, m) == IF m.res # "Ok" THEN m ELSE RemoveDirs(m.w, t.dirs_to_remove)
        Created(t, c) == IF c.res # "Ok" THEN c ELSE Relocated(t, MoveFiles(c.w, t.paths))
        Traversed(w, t) ==
            IF t.res # "Ok" THEN Fail(t.res, w)
            ELSE Created(t, CreateDirs(w, t.dirs_to_create))
        Start(w, to) == Traversed(w, TraverseFrom(w, from, to))
    IN Start(IF ~is_collection(to0) THEN remove_file_impl(w0, to0, TRUE).w ELSE w0,
             IF ~is_collection(to0) THEN as_dir(to0) ELSE to0)

rename_impl(w0, from, to0) ==
    LET Relocated(c) == IF c.res # "Ok" THEN c ELSE remove_file_impl(c.w, from, TRUE)
        Both(rm, to) ==
            IF rm.res # "Ok" THEN rm
            ELSE IF ~is_collection(from) /\ ~is_collection(to)
                 THEN Relocated(copy_impl(rm.w, from, to))
            ELSE RenameDir(rm.w, from, to)
    IN Both(IF ~is_collection(from) /\ is_collection(to0)
                  /\ metadata_info(w0, to0).res = "Ok"
            THEN remove_dir_impl(w0, to0) ELSE Done(w0),
            IF ~is_collection(from) /\ is_collection(to0) THEN as_file(to0) ELSE to0)

----------------------------------------------------------------------------
(* Open files.  Bytes are small integers; a body is a sequence of bytes.    *)
(* The store's answer to a multipart call is an input of the call:          *)
(* "ok" (200), "status" (another status code) or "transport" (Err).         *)

\* model bytes per MiB: the threshold below keeps its factor 10
MiB == 1

CHUNK_SIZE == 10 * MiB

Outcomes == {"ok", "status", "transport"}

NoFile == [kind |-> "None"]

RECURSIVE Zeros(_)
Zeros(n) == IF n <= 0 THEN <<>> ELSE <<0>> \o Zeros(n - 1)

\* std::io::Write for Cursor<Vec<u8>>: writes at the position, growing the vector
CursorWrite(c, b) ==
    LET Over(padded) ==
            [buf |-> SubSeq(padded, 1, c.pos) \o b \o DropFirst(padded, c.pos + Len(b)),
             pos |-> c.pos + Len(b)]
    IN Over(IF c.pos > Len(c.buf) THEN c.buf \o Zeros(c.pos - Len(c.buf)) ELSE c.buf)

\* std::io::Read for Cursor<Vec<u8>>: the bytes read and the position afterwards
CursorRead(c, count) ==
    LET Taken(from, n) == [bytes |-> SubSeq(c.buf, from + 1, from + n), pos |-> c.pos + n]
        From(from) == Taken(from, IF count < Len(c.buf) - from THEN count
                                  ELSE Len(c.buf) - from)
    IN From(IF c.pos > Len(c.buf) THEN Len(c.buf) ELSE c.pos)

NoUpload == [state |-> "none"]

\* the store: POST ?uploads.  A session is known by the handle that owns its id.
create_multipart_upload(ups, id, key) ==
    [ups EXCEPT ![id] = [key |-> key, parts |-> <<>>, state |-> "open", aborts |-> 0]]

\* the store: PUT ?partNumber=n&uploadId=id, answering with the part's etag
PartEtag(id, n, body) == <<id, n, body>>

store_upload_part(ups, id, n, body) ==
    [ups EXCEPT ![id].parts = [k \in DOMAIN @ \cup {n} |-> IF k = n THEN body ELSE @[k]]]

\* the store: DELETE ?uploadId=id; the call is counted even when it does not arrive
abort_multipart_upload(ups, id, outcome) ==
    [ups EXCEPT ![id].state = IF @ = "open" /\ outcome # "transport" THEN "aborted" ELSE @,
                ![id].aborts = @ + 1]

RECURSIVE ConcatParts(_, _)
ConcatParts(session, parts) ==
    IF parts = <<>> THEN <<>>
    ELSE session.parts[Head(parts).part_number] \o ConcatParts(session, Tail(parts))

\* the store accepts a completion that lists uploaded parts with their etags
PartsValid(ups, id, parts) ==
    /\ ups[id].state = "open"
    /\ \A i \in DOMAIN parts :
          /\ parts[i].part_number \in DOMAIN ups[id].parts
          /\ parts[i].etag = PartEtag(id, parts[i].part_number,
                                      ups[id].parts[parts[i].part_number])

\* `written`, `widest`, `clean`, `expect` and `sealed` are history: the bytes the
\* caller wrote and the length of its longest write, whether every call on the
\* handle succeeded so far, what a round trip expects to read, and whether that
\* was written through the encryption wrapper
PartialOpenFile_new(ups, id, metadata, opts, path, outcome) ==
    IF outcome # "ok" THEN [res |-> "GeneralFailure", ups |-> ups]
    ELSE [res |-> "Ok", ups |-> create_multipart_upload(ups, id, path),
          file |-> [kind |-> "Multipart", path |-> path, options |-> opts,
                    len |-> metadata.len, etags |-> <<>>, upload_id |-> id,
                    cursor |-> [buf |-> <<>>, pos |-> 0], written |-> <<>>,
                    widest |-> 0, clean |-> TRUE, expect |-> <<>>, sealed |-> FALSE]]

\* the calls an operation makes to the store, in order
UploadPartCall(n, ok) == [call |-> "upload_part", part_number |-> n, ok |-> ok]
AbortCall == [call |-> "abort_multipart_upload"]
CompleteCall(parts, ok) == [call |-> "complete_multipart_upload", parts |-> parts, ok |-> ok]
TaggingCall == [call |-> "put_object_tagging"]

\* o is the <<part upload, abort>> outcomes
upload_current(f0, ups, o) ==
    LET Sent(f, b, n) ==
            IF Len(b) = 0 THEN [res |-> "Ok", file |-> f, ups |-> ups, calls |-> <<>>]
            ELSE IF ~(o[1] = "ok" /\ ups[f.upload_id].state = "open")
            THEN [res |-> "GeneralFailure", file |-> f,
                  ups |-> abort_multipart_upload(ups, f.upload_id, o[2]),
                  calls |-> <<UploadPartCall(n, FALSE), AbortCall>>]
            ELSE [res |-> "Ok",
                  file |-> [f EXCEPT !.etags = Append(@, PartEtag(f.upload_id, n, b)),
                                     !.len = @ + Len(b),
                                     !.cursor = [buf |-> <<>>, pos |-> 0]],
                  ups |-> store_upload_part(ups, f.upload_id, n, b),
                  calls |-> <<UploadPartCall(n, TRUE)>>]
        Rewound(f) == Sent(f, f.cursor.buf, Len(f.etags) + 1)
    IN Rewound([f0 EXCEPT !.cursor.pos = 0])

\* the length of the longest write so far
Widest(sofar, b) == IF Len(b) > sofar THEN Len(b) ELSE sofar

\* a write_chunk that only fills the buffer and leaves every upload to flush;
\* the code must not behave like this
WriteChunkBufferOnly(f0, ups, b, o) ==
    [res |-> "Ok", ups |-> ups, calls |-> <<>>,
     file |-> [f0 EXCEPT !.cursor = CursorWrite(@, b), !.written = @ \o b,
                         !.widest = Widest(@, b)]]

write_chunk(f0, ups, b, o) ==
    LET Written(f) == IF f.cursor.pos < CHUNK_SIZE
                      THEN [res |-> "Ok", file |-> f, ups |-> ups, calls |-> <<>>]
                      ELSE upload_current(f, ups, o)
    IN Written([f0 EXCEPT !.cursor = CursorWrite(@, b), !.written = @ \o b,
                          !.widest = Widest(@, b)])

\* a parts list numbered from zero; the code must not behave like this
PartsFromZero(etags) == [i \in DOMAIN etags |-> [etag |-> etags[i], part_number |-> i - 1]]

\* the parts list flush builds from the etags
PartsOf(etags) == [i \in DOMAIN etags |-> [etag |-> etags[i], part_number |-> i]]

\* PartialOpenFile::flush; o is <<part upload, abort, completion, tagging>> outcomes
PartialOpenFile_flush(f0, w, ups0, o) ==
    LET Completed(f, ups, parts, calls) ==
            [res |-> IF o[4] = "ok" THEN "Ok"
                     ELSE IF o[4] = "status" THEN "GeneralFailure" ELSE "Panic",
             file |-> f,
             w |-> put_object(w, f.path, ConcatParts(ups[f.upload_id], parts)),
             ups |-> [ups EXCEPT ![f.upload_id].state = "completed"],
             calls |-> calls \o <<CompleteCall(parts, TRUE), TaggingCall>>]
        Complete(f, ups, parts, calls) ==
            IF o[3] = "transport"
            THEN [res |-> "GeneralFailure", file |-> f, w |-> w, ups |-> ups,
                  calls |-> Append(calls, CompleteCall(parts, FALSE))]
            ELSE IF ~(o[3] = "ok" /\ PartsValid(ups, f.upload_id, parts))
            THEN [res |-> "GeneralFailure", file |-> f, w |-> w,
                  ups |-> abort_multipart_upload(ups, f.upload_id, o[2]),
                  calls |-> calls \o <<CompleteCall(parts, FALSE), AbortCall>>]
            ELSE Completed(f, ups, parts, calls)
        Uploaded(u) ==
            IF u.res # "Ok"
            THEN [res |-> u.res, file |-> u.file, w |-> w, ups |-> u.ups, calls |-> u.calls]
            ELSE Complete(u.file, u.ups, PartsOf(u.file.etags), u.calls)
    IN Uploaded(upload_current(f0, ups0, o))

S3SimpleOpenFile_new(metadata, buf, opts, path) ==
    [kind |-> "Simple", path |-> path, options |-> opts, len |-> metadata.len,
     cursor |-> [buf |-> buf, pos |-> 0], written |-> <<>>, widest |-> 0, clean |-> TRUE,
     expect |-> <<>>, sealed |-> FALSE]

S3SimpleOpenFile_write_bytes(f, b) ==
    [f EXCEPT !.cursor = CursorWrite(@, b), !.len = @ + Len(b), !.written = @ \o b,
              !.widest = Widest(@, b)]

\* a read_bytes that never consults the cursor; the round trip must tell it apart
ReadBytesUnread(f, count) == [bytes |-> Zeros(count), file |-> f]

\* read_bytes: a vector of `count` zeros, the cursor read into its front, returned whole
S3SimpleOpenFile_read_bytes(f, count) ==
    LET Read(r) == [bytes |-> r.bytes \o Zeros(count - Len(r.bytes)),
                    file |-> [f EXCEPT !.cursor.pos = r.pos]]
    IN Read(CursorRead(f.cursor, count))

\* S3SimpleOpenFile::flush; o is the <<put, tagging>> outcomes
S3SimpleOpenFile_flush(f, w, o) ==
    IF o[1] = "transport" THEN [res |-> "Panic", w |-> w]
    ELSE IF o[1] # "ok" THEN [res |-> "GeneralFailure", w |-> w]
    ELSE [res |-> IF o[2] = "ok" THEN "Ok"
                  ELSE IF o[2] = "status" THEN "GeneralFailure" ELSE "Panic",
          w |-> put_object(w, f.path, f.cursor.buf)]

\* S3Backend::open; outcome is the store's answer to create_multipart_upload
S3Backend_open(w, ups, id, path, options, outcome) ==
    LET Handle(meta, metadata, buf) ==
            IF meta.res = "Ok" /\ meta.meta.is_dir THEN [res |-> "Forbidden", ups |-> ups]
            ELSE IF meta.res = "Ok" /\ options.create_new THEN [res |-> "Exists", ups |-> ups]
            ELSE IF meta.res # "Ok" /\ ~options.create THEN [res |-> "NotFound", ups |-> ups]
            ELSE IF options.create
                 THEN PartialOpenFile_new(ups, id, metadata, options, path, outcome)
            ELSE [res |-> "Ok", ups |-> ups,
                  file |-> S3SimpleOpenFile_new(metadata, buf, options, path)]
        Loaded(meta, buf) == Handle(meta, S3MetaData(Len(buf), path, FALSE), buf)
    IN Loaded(metadata_info(w, path),
              IF head_object(w, path) = 200 THEN w.objs[path] ELSE <<>>)

----------------------------------------------------------------------------
(* The S3 adapter as a state machine: one action per DavFileSystem and      *)
(* DavFile method.  The paths are what From<&DavPath> yields for requests.  *)

P_root == <<"/">>
P_a    == <<"a", "/">>
P_aa   == <<"a", "/", "a", "/">>
P_ad   == <<"a", "/", "d", "/">>
P_b    == <<"b", "/">>
P_ax   == <<"a", "/", "x">>
P_ady  == <<"a", "/", "d", "/", "y">>

\* how many handles are open at once
MaxFiles == 1

\* how many bytes a caller writes through one handle of the adapter's state machine
MaxWritten == 2

\* how many aborts of one upload session are followed
MaxAborts == 2

Handles == 1 .. MaxFiles

AbortsBounded(h) == uploads[h] # NoUpload => uploads[h].aborts < MaxAborts

Unflushed(h) == files[h] # NoFile /\ uploads[h] # NoUpload /\ uploads[h].state = "open"

S3Chunks == {<<1>>, <<2>>, <<1, 2>>}

OpenOptions == [create : BOOLEAN, create_new : BOOLEAN]

World == NewWorld(bucket)

\* the handle an open leaves in the table; a reader opened right after a clean
\* flush of the same resource is told what the round trip expects
Opened(r, path, options) ==
    IF r.res # "Ok" THEN NoFile
    ELSE IF /\ last.op = "flush" /\ last.res = "Ok" /\ last.clean
            /\ last.kind = "Multipart" /\ last.path = path
            /\ ~last.create_new /\ ~options.create
         THEN [r.file EXCEPT !.expect = <<last.written>>, !.sealed = last.wrapped]
    ELSE r.file

\* DavFile::write_bytes by the kind of handle
DavFile_write_bytes(f, ups, b, o) ==
    IF f.kind = "Multipart" THEN write_chunk(f, ups, b, o)
    ELSE [res |-> "Ok", file |-> S3SimpleOpenFile_write_bytes(f, b), ups |-> ups,
          calls |-> <<>>]

\* DavFile::read_bytes by the kind of handle
DavFile_read_bytes(f, count) ==
    IF f.kind = "Multipart" THEN [res |-> "NotImplemented", file |-> f]
    ELSE [res |-> "Ok"] @@ S3SimpleOpenFile_read_bytes(f, count)

\* DavFile::flush by the kind of handle
DavFile_flush(f, w, ups, o) ==
    IF f.kind = "Multipart" THEN PartialOpenFile_flush(f, w, ups, o)
    ELSE S3SimpleOpenFile_flush(f, w, <<o[3], o[4]>>)
            @@ [file |-> f, ups |-> ups, calls |-> <<>>]

\* DavFileSystem::open
Open(h, path, options, outcome) ==
    /\ files[h] = NoFile
    /\ LET r == S3Backend_open(World, uploads, h, path, options, outcome)
       IN /\ files' = [files EXCEPT ![h] = Opened(r, path, options)]
          /\ uploads' = r.ups
          /\ last' = [op |-> "open", h |-> h, path |-> path, options |-> options,
                      res |-> r.res]
    /\ UNCHANGED <<bucket, others>>

\* DavFile::write_bytes, and write_buf with a one-chunk buffer, while the
\* handle has taken at most `most` bytes
WriteWithin(h, b, o, most) ==
    /\ files[h] # NoFile
    /\ Len(files[h].written) + Len(b) <= most
    /\ files[h].cursor.pos + Len(b) <= most
    /\ AbortsBounded(h)
    /\ LET r == DavFile_write_bytes(files[h], uploads, b, o)
       IN /\ files' = [files EXCEPT ![h] = [r.file EXCEPT !.clean = @ /\ r.res = "Ok"]]
          /\ uploads' = r.ups
          /\ last' = [op |-> "write_bytes", h |-> h, res |-> r.res, calls |-> r.calls]
    /\ UNCHANGED <<bucket, others>>

WriteBytes(h, b, o) == WriteWithin(h, b, o, MaxWritten)

\* DavFile::read_bytes
ReadBytes(h, count) ==
    /\ files[h] # NoFile
    /\ LET f == files[h]
           r == DavFile_read_bytes(files[h], count)
       IN IF r.res # "Ok"
          THEN /\ last' = [op |-> "read_bytes", h |-> h, res |-> r.res]
               /\ files' = [files EXCEPT ![h].clean = FALSE]
          ELSE /\ files' = [files EXCEPT ![h] = r.file]
               /\ last' = [op |-> "read_bytes", h |-> h, res |-> "Ok", count |-> count,
                           out |-> r.bytes, pos0 |-> f.cursor.pos, expect |-> f.expect,
                           sealed |-> f.sealed, wrapped |-> FALSE]
    /\ UNCHANGED <<bucket, uploads, others>>

\* DavFile::flush
Flush(h, o) ==
    /\ files[h] # NoFile
    /\ AbortsBounded(h)
    /\ LET f == files[h]
           r == DavFile_flush(files[h], World, uploads, o)
       IN /\ files' = [files EXCEPT ![h] = [r.file EXCEPT !.clean = FALSE]]
          /\ uploads' = r.ups
          /\ bucket' = r.w.objs
          /\ last' = [op |-> "flush", h |-> h, res |-> r.res, path |-> f.path,
                      kind |-> f.kind, written |-> f.written, clean |-> f.clean,
                      create_new |-> f.options.create_new, wrapped |-> FALSE,
                      widest |-> f.widest, calls |-> r.calls]
    /\ UNCHANGED others

\* the handle is dropped: no call is made, and its upload id is known to nobody else
Close(h) ==
    /\ files[h] # NoFile
    /\ files' = [files EXCEPT ![h] = NoFile]
    /\ uploads' = [uploads EXCEPT ![h] = NoUpload]
    /\ UNCHANGED <<bucket, last, others>>

\* DavFileSystem::create_dir
CreateDir(path) ==
    /\ LET r == create_dir_impl(World, path)
       IN /\ bucket' = r.w.objs
          /\ last' = [op |-> "create_dir", path |-> path, res |-> r.res]
    /\ UNCHANGED <<uploads, files, others>>

\* DavFileSystem::remove_file unwraps the result of remove_file_impl
RemoveFile(path) ==
    /\ LET r == remove_file_impl(World, path, TRUE)
       IN /\ bucket' = r.w.objs
          /\ last' = [op |-> "remove_file", path |-> path,
                      res |-> IF r.res = "Ok" THEN "Ok" ELSE "Panic", err |-> r.res]
    /\ UNCHANGED <<uploads, files, others>>

\* DavFileSystem::remove_dir
RemoveDir(path) ==
    /\ LET r == remove_dir_impl(World, path)
       IN /\ bucket' = r.w.objs
          /\ last' = [op |-> "remove_dir", path |-> path, res |-> r.res]
    /\ UNCHANGED <<uploads, files, others>>

\* DavFileSystem::copy
Copy(from, to) ==
    /\ LET Result(r) ==
               /\ bucket' = r.w.objs
               /\ last' = [op |-> "copy", from |-> from, to |-> to, res |-> r.res]
       IN Result(copy_impl(World, from, to))
    /\ UNCHANGED <<uploads, files, others>>

\* DavFileSystem::rename
Rename(from, to) ==
    /\ LET Result(r) ==
               /\ bucket' = r.w.objs
               /\ last' = [op |-> "rename", from |-> from, to |-> to, res |-> r.res,
                           log |-> r.w.log]
       IN Result(rename_impl(World, from, to))
    /\ UNCHANGED <<uploads, files, others>>

\* DavFileSystem::read_dir, the stream collected
ReadDir(path) ==
    /\ LET r == read_dir_impl(World, path)
       IN last' = [op |-> "read_dir", path |-> path, res |-> r.res,
                   entries |-> IF r.res = "Ok" THEN r.entries ELSE <<>>]
    /\ UNCHANGED <<bucket, uploads, files, others>>

\* DavFileSystem::metadata
Metadata(path) ==
    /\ LET r == metadata_info(World, path)
       IN last' = [op |-> "metadata", path |-> path, res |-> r.res,
                   is_dir |-> r.res = "Ok" /\ r.meta.is_dir]
    /\ UNCHANGED <<bucket, uploads, files, others>>

NoS3 ==
    /\ bucket = <<>>
    /\ uploads = [h \in Handles |-> NoUpload]
    /\ files = [h \in Handles |-> NoFile]

NoAggregate == filesystems = {}

NoProps == props = {}

NoEncryption == enc = <<>>

InitS3 == NoS3 /\ NoAggregate /\ NoProps /\ NoEncryption /\ last = [op |-> "init"]

AllOk == <<"ok", "ok", "ok", "ok">>

CreateOnly == [create |-> TRUE, create_new |-> FALSE]

(* Collections and listings: directories a/, a/a/, a/d/ and a file a/x.     *)
DirPaths == {P_root, P_a, P_aa, P_ad, P_ax}

NextS3 ==
    \/ \E p \in DirPaths : CreateDir(p)
    \/ \E p \in DirPaths : RemoveFile(p)
    \/ \E p \in DirPaths : RemoveDir(p)
    \/ \E p \in DirPaths : ReadDir(p)
    \/ \E p \in DirPaths : Metadata(p)
    \/ \E h \in Handles : Open(h, P_ax, CreateOnly, "ok")
    \/ \E h \in Handles : Unflushed(h) /\ Flush(h, AllOk)
    \/ \E h \in Handles : Close(h)

SpecS3 == InitS3 /\ [][NextS3]_vars

(* Renames over the tree a/, a/d/, a/x, a/d/y and a target b/.              *)
RenamePairs == {<<P_a, P_b>>, <<P_ad, P_b>>, <<P_ax, P_ady>>}

NextRename ==
    \/ \E p \in {P_a, P_ad} : CreateDir(p)
    \/ \E h \in Handles, p \in {P_ax, P_ady} : Open(h, p, CreateOnly, "ok")
    \/ \E h \in Handles : Unflushed(h) /\ Flush(h, AllOk)
    \/ \E h \in Handles : Close(h)
    \/ \E pq \in RenamePairs : Rename(pq[1], pq[2])

SpecRename == InitS3 /\ [][NextRename]_vars
(* Reading back what was written: one resource, every option set, writes   *)
(* in chunks of one or two bytes.                                           *)
NextFile ==
    \/ \E h \in Handles, opt \in OpenOptions : Open(h, P_ax, opt, "ok")
    \/ \E h \in Handles, b \in S3Chunks : WriteBytes(h, b, <<"ok", "ok">>)
    \/ \E h \in Handles, n \in 0 .. MaxWritten : ReadBytes(h, n)
    \/ \E h \in Handles : Flush(h, AllOk)
    \/ \E h \in Handles : Close(h)

SpecFile == InitS3 /\ [][NextFile]_vars

(* A body streamed to one resource in writes of several lengths around the  *)
(* part threshold, up to a little over twice the threshold.                 *)
MaxStreamed == 2 * CHUNK_SIZE + 5

StreamLens == {3, CHUNK_SIZE - 3, CHUNK_SIZE, 2 * CHUNK_SIZE + 1}

\* the next n bytes of the body: each byte is its position in the body
NextBytes(sofar, n) == [i \in 1 .. n |-> (Len(sofar) + i) % 256]

NextMP ==
    \/ \E h \in Handles : Open(h, P_ax, CreateOnly, "ok")
    \/ \E h \in Handles, n \in StreamLens :
          files[h] # NoFile /\ WriteWithin(h, NextBytes(files[h].written, n), AllOk, MaxStreamed)
    \/ \E h \in Handles : Flush(h, AllOk)
    \/ \E h \in Handles : Close(h)

SpecMP == InitS3 /\ [][NextMP]_vars

(* One upload session with every answer of the store to every call.        *)
(* The answers are <<part upload, abort, completion, tagging>>: all well,   *)
(* or one call failing by status or by transport.                           *)
FlushOutcomes ==
    {AllOk}
    \cup {<<bad, "ok", "ok", "ok">> : bad \in Outcomes \ {"ok"}}
    \cup {<<"ok", "ok", bad, "ok">> : bad \in Outcomes \ {"ok"}}
    \cup {<<"ok", "transport", "status", "ok">>}
    \cup {<<"ok", "ok", "ok", bad>> : bad \in Outcomes \ {"ok"}}

\* two full parts and a remainder
MaxSent == 2 * CHUNK_SIZE + 3

NextAbort ==
    \/ \E h \in Handles, outcome \in Outcomes : Open(h, P_ax, CreateOnly, outcome)
    \/ \E h \in Handles, n \in {3, CHUNK_SIZE}, o \in FlushOutcomes :
          /\ files[h] # NoFile
          /\ WriteWithin(h, NextBytes(files[h].written, n), <<o[1], o[2]>>, MaxSent)
    \/ \E h \in Handles, o \in FlushOutcomes : Flush(h, o)
    \/ \E h \in Handles : Close(h)

SpecAbort == InitS3 /\ [][NextAbort]_vars

(* Preconditions: a collection a/, resources a/x and x.dir, a path a/x/y/   *)
(* below a resource, and the root.                                          *)
P_axy  == <<"a", "/", "x", "/", "y", "/">>
P_xdir == <<"x", ".", "d", "i", "r">>

NextPre ==
    \/ \E p \in {P_root, P_a, P_ax, P_axy} : CreateDir(p)
    \/ \E p \in {P_root, P_a, P_ax, P_xdir} : RemoveFile(p)
    \/ \E p \in {P_root, P_a, P_ax, P_xdir} : RemoveDir(p)
    \/ \E p \in {P_root, P_a, P_ax, P_axy, P_xdir} : Metadata(p)
    \/ \E h \in Handles, p \in {P_root, P_a, P_ax, P_xdir}, opt \in OpenOptions :
          Open(h, p, opt, "ok")
    \/ \E h \in Handles : Unflushed(h) /\ Flush(h, AllOk)
    \/ \E h \in Handles : Close(h)

SpecPre == InitS3 /\ [][NextPre]_vars

(* Moves of a resource in a small tree: the directories a/ and a/d/, the    *)
(* resources a/x and a/d/y with an empty or a one-byte body, and renames of *)
(* a/x onto a resource, into a missing directory, onto itself and onto a/d/. *)
P_bx == <<"b", "/", "x">>

MaxBody == 1

MovePairs ==
    {<<P_ax, P_ady>>, <<P_ax, P_bx>>, <<P_ax, P_ax>>, <<P_ax, P_ad>>}

NextMove ==
    \/ \E p \in {P_a, P_ad} : CreateDir(p)
    \/ \E h \in Handles, p \in {P_ax, P_ady} : Open(h, p, CreateOnly, "ok")
    \/ \E h \in Handles : files[h] # NoFile /\ WriteWithin(h, <<1>>, <<"ok", "ok">>, MaxBody)
    \/ \E h \in Handles : Unflushed(h) /\ Flush(h, AllOk)
    \/ \E h \in Handles : Close(h)
    \/ \E pq \in MovePairs : Rename(pq[1], pq[2])

SpecMove == InitS3 /\ [][NextMove]_vars

(* Several writers opening one absent resource with create_new.            *)
MaxWriters == 2

Writers == 1 .. MaxWriters

CreateNew == [create |-> TRUE, create_new |-> TRUE]

InitWriters ==
    /\ bucket = <<>>
    /\ uploads = [h \in Writers |-> NoUpload]
    /\ files = [h \in Writers |-> NoFile]
    /\ NoAggregate /\ NoProps /\ NoEncryption /\ last = [op |-> "init"]

NextWriters ==
    \/ \E h \in Writers : Open(h, P_ax, CreateNew, "ok")
    \/ \E h \in Writers : files[h] # NoFile /\ WriteWithin(h, <<h>>, <<"ok", "ok">>, MaxBody)
    \/ \E h \in Writers : Unflushed(h) /\ Flush(h, AllOk)
    \/ \E h \in Writers : Close(h)

SpecWriters == InitWriters /\ [][NextWriters]_vars

----------------------------------------------------------------------------
(* Aggregate: the mount table and routing.  A DavPath is written as its     *)
(* decoded path, a string that ends in "/" exactly when it names a          *)
(* collection; a mount prefix is the string that was registered.            *)

\* std::path::Path: the normal components of a path string
Components(s) == SelectSeq(Split(s, SL), LAMBDA c : c # <<>>)

RECURSIVE JoinComponents(_)
JoinComponents(cs) ==
    IF cs = <<>> THEN <<>>
    ELSE IF Len(cs) = 1 THEN cs[1]
    ELSE cs[1] \o <<SL>> \o JoinComponents(Tail(cs))

\* the string of an absolute path with these components
Absolute(cs) == <<SL>> \o JoinComponents(cs)

\* DavPath::as_pathbuf: the path without the slash that marks a collection
as_pathbuf(p) == IF Len(p) > 1 /\ EndsWith(p, <<SL>>) THEN DropLast(p, 1) ELSE p

\* Path::ancestors, root first; the code must not walk them in this order
AncestorsRootFirst(pb) ==
    LET Up(cs) == [i \in 1 .. Len(cs) + 1 |-> Absolute(SubSeq(cs, 1, i - 1))]
    IN Up(Components(pb))

\* Path::ancestors: the path itself, then each parent up to "/"
Ancestors(pb) ==
    LET Up(cs) == [i \in 1 .. Len(cs) + 1 |-> Absolute(SubSeq(cs, 1, Len(cs) + 1 - i))]
    IN Up(Components(pb))

\* Path::strip_prefix: by whole components; the remainder is a relative path
PathStripPrefix(path, base) ==
    LET Strip(cs, bs) ==
            IF Len(bs) <= Len(cs) /\ SubSeq(cs, 1, Len(bs)) = bs
            THEN [ok |-> TRUE, rest |-> JoinComponents(DropFirst(cs, Len(bs)))]
            ELSE [ok |-> FALSE]
    IN Strip(Components(path), Components(base))

\* Path::join of one relative component
PathJoin(base, el) == IF EndsWith(base, <<SL>>) THEN base \o el ELSE base \o <<SL>> \o el

\* Path::parent, with the unwrap_or("/") of find_routes_at_level
PathParent(path) ==
    LET Up(cs) == IF cs = <<>> THEN <<SL>> ELSE Absolute(DropLast(cs, 1))
    IN Up(Components(path))

\* percent_encode with ENC: everything but alphanumerics, '.', '/' and '"' is escaped
RECURSIVE percent_encode(_)
percent_encode(s) ==
    IF s = <<>> THEN <<>>
    ELSE (CASE Head(s) = "-" -> <<"%", "2", "D">>
            [] Head(s) = "%" -> <<"%", "2", "5">>
            [] OTHER -> <<Head(s)>>) \o percent_encode(Tail(s))

\* DavPath::new: the percent-decoded path
RECURSIVE DavPath_new(_)
DavPath_new(s) ==
    IF s = <<>> THEN <<>>
    ELSE IF Len(s) >= 3 /\ SubSeq(s, 1, 3) = <<"%", "2", "D">>
         THEN <<"-">> \o DavPath_new(DropFirst(s, 3))
    ELSE IF Len(s) >= 3 /\ SubSeq(s, 1, 3) = <<"%", "2", "5">>
         THEN <<"%">> \o DavPath_new(DropFirst(s, 3))
    ELSE <<Head(s)>> \o DavPath_new(Tail(s))

\* the "for p in pb.ancestors()" loop of find_route: the first registered ancestor
RECURSIVE FirstRoute(_, _)
FirstRoute(fs, ancestors) ==
    IF ancestors = <<>> THEN <<>>
    ELSE IF Head(ancestors) \in fs THEN <<Head(ancestors)>>
    ELSE FirstRoute(fs, Tail(ancestors))

\* find_route restoring a final slash on every relative path; the code must
\* not behave like this
find_route_slashed(fs, route) ==
    LET Slashed(path) == IF ~EndsWith(path, <<SL>>) THEN path \o <<SL>> ELSE path
        Stripped(p, rel) ==
            IF ~rel.ok THEN [res |-> "NotFound"]
            ELSE [res |-> "Ok", route |-> p,
                  path |-> DavPath_new(Slashed(<<SL>> \o percent_encode(rel.rest)))]
        Found(pb, hit) ==
            IF hit = <<>> THEN [res |-> "NotFound"]
            ELSE Stripped(hit[1], PathStripPrefix(pb, hit[1]))
        Walk(pb) == Found(pb, FirstRoute(fs, Ancestors(pb)))
    IN Walk(as_pathbuf(route))

find_route(fs, route) ==
    LET Slashed(path) ==
            IF is_collection(route) /\ ~EndsWith(path, <<SL>>) THEN path \o <<SL>> ELSE path
        Stripped(p, rel) ==
            IF ~rel.ok THEN [res |-> "NotFound"]
            ELSE [res |-> "Ok", route |-> p,
                  path |-> DavPath_new(Slashed(<<SL>> \o percent_encode(rel.rest)))]
        Found(pb, hit) ==
            IF hit = <<>> THEN [res |-> "NotFound"]
            ELSE Stripped(hit[1], PathStripPrefix(pb, hit[1]))
        Walk(pb) == Found(pb, FirstRoute(fs, Ancestors(pb)))
    IN Walk(as_pathbuf(route))

\* the first piece of str::split('/')
FirstSegment(k) == Head(Split(k, SL))

\* find_routes_at_level keeping every mount below the level, not its first
\* hop; the code must not behave like this
find_routes_below_level(fs, level0) ==
    LET Below(level, k) == PathStripPrefix(k, level)
        Deep(level) == {m \in fs : Below(level, m).ok /\ Below(level, m).rest # <<>>}
        Level(pb) == Deep(PathParent(IF is_collection(level0) THEN PathJoin(pb, <<"e">>)
                                     ELSE pb))
    IN Level(as_pathbuf(level0))

\* the set the HashSet of find_routes_at_level holds at the end
find_routes_at_level(fs, level0) ==
    LET Below(level, k) == PathStripPrefix(k, level)
        Hops(level) ==
            {PathJoin(level, FirstSegment(Below(level, k).rest)) :
                k \in {m \in fs : Below(level, m).ok /\ Below(level, m).rest # <<>>}}
        Level(pb) == Hops(PathParent(IF is_collection(level0) THEN PathJoin(pb, <<"e">>)
                                     ELSE pb))
    IN Level(as_pathbuf(level0))

\* AggregateDirEntry for a path found at the level: its name and its metadata
AggregateDirEntry(d) == [name |-> FromString(d \o <<SL>>), is_dir |-> TRUE, synthetic |-> TRUE]

\* an entry the routed backend's read_dir yields
BackendEntry(name, is_dir) == [name |-> name, is_dir |-> is_dir, synthetic |-> FALSE]

\* the orders in which a HashSet's into_iter may yield its elements
Orders(S) == {q \in [1 .. Cardinality(S) -> S] : \A i, j \in DOMAIN q : i # j => q[i] # q[j]}

\* Aggregate::read_dir with the routed backend's answer `listing` and the order
\* `dirs` in which the found routes are yielded
Aggregate_read_dir(fs, path, listing, dirs) ==
    LET Physical(r) == IF r.res = "Ok" /\ listing.res = "Ok" THEN listing.entries ELSE <<>>
    IN [res |-> "Ok",
        entries |-> Physical(find_route(fs, path))
                    \o [i \in DOMAIN dirs |-> AggregateDirEntry(dirs[i])]]

M_root == <<"/">>
M_x    == <<"/", "x">>
M_xy   == <<"/", "x", "/", "y">>
M_ab   == <<"/", "a", "/", "b">>
M_ac   == <<"/", "a", "/", "c">>

M_s3   == <<"/", "s", "3">>
M_mem  == <<"/", "m", "e", "m">>

MountPrefixes == {M_root, M_x, M_xy, M_ab, M_ac, M_s3, M_mem}

Requests ==
    {<<"/">>, <<"/", "x">>, <<"/", "x", "/">>, <<"/", "x", "/", "w">>,
     <<"/", "x", "y">>, <<"/", "x", "/", "y">>, <<"/", "x", "/", "y", "/", "z">>,
     <<"/", "x", "/", "y", "/", "z", "/">>, <<"/", "x", "/", "w", "-", "/">>,
     <<"/", "a">>, <<"/", "a", "/", "b", "/", "c">>, <<"/", "q">>}

Levels == {<<"/">>, <<"/", "a", "/">>, <<"/", "x", "/">>, <<"/", "x", "/", "y", "/">>,
           <<"/", "a", "/", "b">>}

BackendListings ==
    {[res |-> "NotFound"], [res |-> "Ok", entries |-> <<>>],
     [res |-> "Ok", entries |-> <<BackendEntry(<<"f">>, FALSE)>>]}

\* Aggregate::add_route
AddRoute(route) ==
    /\ filesystems' = filesystems \cup {route}
    /\ last' = [op |-> "add_route", route |-> route,
                res |-> IF route \in filesystems THEN "Err" ELSE "Ok"]
    /\ UNCHANGED <<bucket, uploads, files, props, enc>>

\* Aggregate::find_route
FindRoute(route) ==
    /\ last' = [op |-> "find_route", path |-> route, found |-> find_route(filesystems, route)]
    /\ UNCHANGED <<bucket, uploads, files, others>>

\* what the routed backend answered, "none" when no backend was called
Called(fs, path, answer) == IF find_route(fs, path).res = "Ok" THEN answer ELSE "none"

\* DavFileSystem::read_dir for Aggregate, the stream collected
AggReadDir(path, listing) ==
    /\ \E dirs \in Orders(find_routes_at_level(filesystems, path)) :
          last' = [op |-> "agg_read_dir", path |-> path,
                   backend |-> Called(filesystems, path, listing.res),
                   res |-> Aggregate_read_dir(filesystems, path, listing, dirs).res,
                   entries |-> Aggregate_read_dir(filesystems, path, listing, dirs).entries]
    /\ UNCHANGED <<bucket, uploads, files, others>>

InitAgg == NoS3 /\ NoAggregate /\ NoProps /\ NoEncryption /\ last = [op |-> "init"]

NextAgg ==
    \/ \E route \in MountPrefixes : AddRoute(route)
    \/ \E route \in Requests : FindRoute(route)
    \/ \E path \in Levels, listing \in BackendListings : AggReadDir(path, listing)

SpecAgg == InitAgg /\ [][NextAgg]_vars

----------------------------------------------------------------------------
(* Dead properties: the Memory store and the Aggregate's property hooks.    *)
(* The store is the set of the HashMap's entries [key, prop]; an Option is  *)
(* <<>> for None and <<v>> for Some(v).                                     *)

\* impl From<&DavPath> for NormalizedPath
FromDavPath(t) ==
    LET Marked(rel) == IF EndsWith(t, <<SL>>) THEN rel \o <<SL>> ELSE rel
    IN Marked(PathStripPrefix(as_pathbuf(t), <<SL>>).rest)

DavProp(name, namespace, xml) == [name |-> name, namespace |-> namespace, xml |-> xml]

\* Memory::get_prop_string
get_prop_string(path, prop) ==
    LET Key(ns) == path \o <<".">> \o ns \o <<".">> \o prop.name
    IN Key(IF prop.namespace = <<>> THEN <<>> ELSE prop.namespace[1])

\* HashMap::get
MapGet(data, k) == {e \in data : e.key = k}

\* HashMap::remove
MapRemove(data, k) == {e \in data : e.key # k}

\* HashMap::entry(k).or_insert(v)
MapOrInsert(data, k, v) ==
    IF MapGet(data, k) # {} THEN data ELSE data \cup {[key |-> k, prop |-> v]}

\* the set arm of add_prop: or_insert, then the assignment through the reference
MapAssign(data, k, v) == MapRemove(data, k) \cup {[key |-> k, prop |-> v]}

\* add_prop with a set arm that only inserts; the code must not behave like this
AddPropOrInsert(data, path, set, prop) ==
    [res |-> "Ok", status |-> 200, prop |-> [prop EXCEPT !.xml = <<>>],
     data |-> IF set THEN MapOrInsert(data, get_prop_string(path, prop), prop)
              ELSE MapRemove(data, get_prop_string(path, prop))]

\* Memory::add_prop (patch_prop delegates to it)
Memory_add_prop(data, path, set, prop) ==
    [res |-> "Ok", status |-> 200, prop |-> [prop EXCEPT !.xml = <<>>],
     data |-> IF set THEN MapAssign(data, get_prop_string(path, prop), prop)
              ELSE MapRemove(data, get_prop_string(path, prop))]

\* Memory::get_prop
Memory_get_prop(data, path, prop) ==
    LET Payload(e) == IF e.prop.xml = <<>> THEN [res |-> "NotFound"]
                      ELSE [res |-> "Ok", xml |-> e.prop.xml[1]]
        Hit(es) == IF es = {} THEN [res |-> "NotFound"] ELSE Payload(CHOOSE e \in es : TRUE)
    IN Hit(MapGet(data, get_prop_string(path, prop)))

\* the entries whose key starts with the path: the test of every key loop
KeysUnder(data, path) == {e \in data : StartsWith(e.key, path)}

\* Memory::have_props
Memory_have_props(data, path) == KeysUnder(data, path) # {}

\* Memory::get_props: the Vecs it may return; the HashMap yields its keys in
\* an arbitrary order
Memory_get_props(data, path, do_content) ==
    {[i \in DOMAIN q |-> IF do_content THEN q[i].prop ELSE [q[i].prop EXCEPT !.xml = <<>>]] :
        q \in Orders(KeysUnder(data, path))}

\* Memory::remove_file: the stores it may leave; the loop stops at the first
\* key found, and the HashMap yields its keys in an arbitrary order
Memory_remove_file(data, path) ==
    LET Break(found) == IF found = {} THEN {data} ELSE {data \ {e} : e \in found}
    IN Break(KeysUnder(data, path))

\* the pairs (k, pp) pushed by the first loop of rename and of copy
Relocations(data, from, to) ==
    {<<e.key, to \o FromString(DropFirst(e.key, Len(from)))>> : e \in KeysUnder(data, from)}

\* the second loop of rename, over the pairs in the order they were pushed
RECURSIVE RenameLoop(_, _)
RenameLoop(data, rn) ==
    IF rn = <<>> THEN data
    ELSE RenameLoop(MapOrInsert(MapRemove(data, rn[1][1]), rn[1][2],
                                (CHOOSE e \in MapGet(data, rn[1][1]) : TRUE).prop),
                    Tail(rn))

\* Memory::rename: the stores it may leave, one for each order of the keys
Memory_rename(data, from, to) ==
    {RenameLoop(data, rn) : rn \in Orders(Relocations(data, from, to))}

\* Memory::remove_dir: the same loop as remove_file
Memory_remove_dir(data, path) ==
    LET Break(found) == IF found = {} THEN {data} ELSE {data \ {e} : e \in found}
    IN Break(KeysUnder(data, path))

\* the second loop of copy, over the pairs in the order they were pushed
RECURSIVE CopyLoop(_, _)
CopyLoop(data, cp) ==
    IF cp = <<>> THEN data
    ELSE CopyLoop(MapOrInsert(data, cp[1][2], (CHOOSE e \in MapGet(data, cp[1][1]) : TRUE).prop),
                  Tail(cp))

\* Memory::copy: the stores it may leave, one for each order of the keys
Memory_copy(data, from, to) ==
    {CopyLoop(data, cp) : cp \in Orders(Relocations(data, from, to))}

\* Aggregate's `route.op(..).await.and(self.props.op(..).await)?`: the store
\* call is made whatever the backend answered, and the backend's error wins
ResultAnd(backend, store) == IF backend = "Ok" THEN store ELSE backend

D_h  == <<"/", "h">>
D_ht == <<"/", "h", ".", "t">>

PropPaths == {D_h, D_ht}

MaxPatch == 2
MaxProps == 2
MaxKey == 7

\* the store stays within the bounds
PropsBounded(data) == Cardinality(data) <= MaxProps /\ \A e \in data : Len(e.key) <= MaxKey

\* the properties of the requests: one name, with and without a namespace,
\* and two payloads
DavProps ==
    {DavProp(<<"n">>, ns, xml) : ns \in {<<>>, <<<<"s">>>>}, xml \in {<<<<1>>>>, <<<<2>>>>}}

PatchItems == [set : BOOLEAN, prop : DavProps]

Patches == UNION {[1 .. n -> PatchItems] : n \in 1 .. MaxPatch}

\* the store after the loop of patch_props
RECURSIVE PatchLoop(_, _, _)
PatchLoop(data, path, patch) ==
    IF patch = <<>> THEN data
    ELSE PatchLoop(Memory_add_prop(data, path, Head(patch).set, Head(patch).prop).data,
                   path, Tail(patch))

\* Aggregate::patch_props
PatchProps(path, patch) ==
    /\ props' = PatchLoop(props, FromDavPath(path), patch)
    /\ PropsBounded(props')
    /\ last' = [op |-> "patch_props", path |-> path, patch |-> patch, res |-> "Ok",
                r |-> [i \in DOMAIN patch |->
                          [status |-> 200, prop |-> [patch[i].prop EXCEPT !.xml = <<>>]]]]
    /\ UNCHANGED <<bucket, uploads, files, filesystems, enc>>

\* Aggregate::get_prop
GetProp(path, prop) ==
    /\ last' = [op |-> "get_prop", path |-> path, prop |-> prop,
                got |-> Memory_get_prop(props, FromDavPath(path), prop)]
    /\ UNCHANGED <<bucket, uploads, files, others>>

\* Aggregate::get_props
GetProps(path, do_content) ==
    /\ \E found \in Memory_get_props(props, FromDavPath(path), do_content) :
          last' = [op |-> "get_props", path |-> path, res |-> "Ok", found |-> found]
    /\ UNCHANGED <<bucket, uploads, files, others>>

\* Aggregate::remove_file; `backend` is the answer of the routed backend
AggRemoveFile(path, backend) ==
    /\ IF find_route(filesystems, path).res # "Ok"
       THEN /\ props' = props
            /\ last' = [op |-> "agg_remove_file", path |-> path, backend |-> "none",
                        res |-> "NotFound"]
       ELSE /\ props' \in Memory_remove_file(props, FromDavPath(path))
            /\ last' = [op |-> "agg_remove_file", path |-> path, backend |-> backend,
                        res |-> ResultAnd(backend, "Ok")]
    /\ UNCHANGED <<bucket, uploads, files, filesystems, enc>>

\* Aggregate::rename; `backend` is the answer of the routed backend
AggRename(from, to, backend) ==
    /\ IF find_route(filesystems, from).res # "Ok" \/ find_route(filesystems, to).res # "Ok"
       THEN /\ props' = props
            /\ last' = [op |-> "agg_rename", from |-> from, to |-> to, backend |-> "none",
                        res |-> "NotFound"]
       ELSE /\ props' \in Memory_rename(props, FromDavPath(from), FromDavPath(to))
            /\ PropsBounded(props')
            /\ last' = [op |-> "agg_rename", from |-> from, to |-> to, backend |-> backend,
                        res |-> ResultAnd(backend, "Ok")]
    /\ UNCHANGED <<bucket, uploads, files, filesystems, enc>>

BackendAnswers == {"Ok", "NotFound"}

InitProps == NoS3 /\ NoAggregate /\ NoProps /\ NoEncryption /\ last = [op |-> "init"]

NextProps ==
    \/ AddRoute(M_root)
    \/ \E path \in PropPaths, patch \in Patches : PatchProps(path, patch)
    \/ \E path \in PropPaths, prop \in DavProps : GetProp(path, prop)
    \/ \E path \in PropPaths, do_content \in BOOLEAN : GetProps(path, do_content)
    \/ \E path \in PropPaths, backend \in BackendAnswers : AggRemoveFile(path, backend)
    \/ \E from \in PropPaths : \E to \in PropPaths \ {from}, backend \in BackendAnswers :
          AggRename(from, to, backend)

SpecProps == InitProps /\ [][NextProps]_vars

----------------------------------------------------------------------------
(* EncryptionWrapper over the S3 adapter.  enc.ks is the ChaCha20 keystream *)
(* of the wrapper's passphrase and nonce, enc.cipher[h] the cipher of the   *)
(* file wrapper around handle h: its position in the keystream, and as      *)
(* history the plaintext written and the plaintext read through it.         *)

\* exclusive or of two bytes
RECURSIVE BitXor(_, _)
BitXor(a, b) ==
    IF a = 0 THEN b
    ELSE IF b = 0 THEN a
    ELSE (((a % 2) + (b % 2)) % 2) + (2 * BitXor(a \div 2, b \div 2))

NoCipher == [wrapped |-> FALSE]

\* ChaCha20::new(passphrase, nonce): the keystream from its start
ChaCha20_new == [wrapped |-> TRUE, pos |-> 0, plain |-> <<>>, got |-> <<>>]

\* a cipher that starts every call at the head of the keystream; the code
\* must not behave like this
KeystreamRewound(ks, c, v) ==
    [out |-> [i \in 1 .. Len(v) |-> BitXor(v[i], ks[i])], cipher |-> c]

\* StreamCipher::apply_keystream: the bytes combined with the next keystream bytes
apply_keystream(ks, c, v) ==
    [out |-> [i \in 1 .. Len(v) |-> BitXor(v[i], ks[c.pos + i])],
     cipher |-> [c EXCEPT !.pos = @ + Len(v)]]

Wrapped(h) == enc.cipher[h].wrapped

\* DavFileSystem::open for EncryptionWrapper
EncOpen(h, path, options, outcome) ==
    /\ files[h] = NoFile
    /\ LET r == S3Backend_open(World, uploads, h, path, options, outcome)
       IN /\ files' = [files EXCEPT ![h] = Opened(r, path, options)]
          /\ uploads' = r.ups
          /\ enc' = [enc EXCEPT !.cipher[h] = IF r.res = "Ok" THEN ChaCha20_new ELSE NoCipher]
          /\ last' = [op |-> "open", h |-> h, path |-> path, options |-> options,
                      res |-> r.res]
    /\ UNCHANGED <<bucket, filesystems, props>>

\* DavFile::write_bytes for EncryptionFileWrapper (write_buf does the same)
EncWriteBytes(h, b, o) ==
    /\ files[h] # NoFile /\ Wrapped(h)
    /\ Len(files[h].written) + Len(b) <= MaxWritten
    /\ files[h].cursor.pos + Len(b) <= MaxWritten
    /\ enc.cipher[h].pos + Len(b) <= Len(enc.ks)
    /\ AbortsBounded(h)
    /\ LET Sent(k, r) ==
            /\ files' = [files EXCEPT ![h] = [r.file EXCEPT !.clean = @ /\ r.res = "Ok"]]
            /\ uploads' = r.ups
            /\ enc' = [enc EXCEPT !.cipher[h] = [k.cipher EXCEPT !.plain = @ \o b]]
            /\ last' = [op |-> "write_bytes", h |-> h, res |-> r.res]
           Ciphered(k) == Sent(k, DavFile_write_bytes(files[h], uploads, k.out, o))
       IN Ciphered(apply_keystream(enc.ks, enc.cipher[h], b))
    /\ UNCHANGED <<bucket, filesystems, props>>

\* DavFile::read_bytes for EncryptionFileWrapper
EncReadBytes(h, count) ==
    /\ files[h] # NoFile /\ Wrapped(h)
    /\ enc.cipher[h].pos + count <= Len(enc.ks)
    /\ LET Deciphered(r, k) ==
            /\ files' = [files EXCEPT ![h] = r.file]
            /\ enc' = [enc EXCEPT !.cipher[h] = [k.cipher EXCEPT !.got = @ \o k.out]]
            /\ last' = [op |-> "read_bytes", h |-> h, res |-> "Ok", count |-> count,
                        out |-> k.out, pos0 |-> files[h].cursor.pos,
                        expect |-> files[h].expect, sealed |-> files[h].sealed,
                        wrapped |-> TRUE, written |-> enc.cipher[h].plain,
                        got |-> enc.cipher[h].got \o k.out]
           Read(r) ==
            IF r.res # "Ok"
            THEN /\ last' = [op |-> "read_bytes", h |-> h, res |-> r.res]
                 /\ files' = [files EXCEPT ![h].clean = FALSE]
                 /\ enc' = enc
            ELSE Deciphered(r, apply_keystream(enc.ks, enc.cipher[h], r.bytes))
       IN Read(DavFile_read_bytes(files[h], count))
    /\ UNCHANGED <<bucket, uploads, filesystems, props>>

\* DavFile::flush for EncryptionFileWrapper
EncFlush(h, o) ==
    /\ files[h] # NoFile /\ Wrapped(h)
    /\ AbortsBounded(h)
    /\ LET Flushed(f, r) ==
            /\ files' = [files EXCEPT ![h] = [r.file EXCEPT !.clean = FALSE]]
            /\ uploads' = r.ups
            /\ bucket' = r.w.objs
            /\ last' = [op |-> "flush", h |-> h, res |-> r.res, path |-> f.path,
                        kind |-> f.kind, written |-> enc.cipher[h].plain, clean |-> f.clean,
                        create_new |-> f.options.create_new, wrapped |-> TRUE,
                        widest |-> f.widest]
       IN Flushed(files[h], DavFile_flush(files[h], World, uploads, o))
    /\ UNCHANGED others

\* the wrapped handle is dropped, and its cipher with it
EncClose(h) ==
    /\ files[h] # NoFile /\ Wrapped(h)
    /\ files' = [files EXCEPT ![h] = NoFile]
    /\ uploads' = [uploads EXCEPT ![h] = NoUpload]
    /\ enc' = [enc EXCEPT !.cipher[h] = NoCipher]
    /\ UNCHANGED <<bucket, last, filesystems, props>>

\* the keystream bytes tried: a zero byte and two others
KeyBytes == {0, 3, 5}

ReadOnly == [create |-> FALSE, create_new |-> FALSE]

\* EncryptionWrapper::new over S3Backend::new, for every keystream tried
InitEnc ==
    /\ NoS3 /\ NoAggregate /\ NoProps
    /\ enc \in [ks : [1 .. MaxWritten -> KeyBytes], cipher : [Handles -> {NoCipher}]]
    /\ last = [op |-> "init"]

(* One resource written and read back, through the wrapper and around it.   *)
NextEnc ==
    \/ \E h \in Handles, opt \in {CreateOnly, ReadOnly} : EncOpen(h, P_ax, opt, "ok")
    \/ \E h \in Handles, b \in S3Chunks : EncWriteBytes(h, b, <<"ok", "ok">>)
    \/ \E h \in Handles, n \in 1 .. MaxWritten : EncReadBytes(h, n)
    \/ \E h \in Handles : EncFlush(h, AllOk)
    \/ \E h \in Handles : EncClose(h)
    \/ \E h \in Handles : Open(h, P_ax, ReadOnly, "ok")
    \/ \E h \in Handles, n \in 1 .. MaxWritten : ~Wrapped(h) /\ ReadBytes(h, n)
    \/ \E h \in Handles : ~Wrapped(h) /\ Close(h)

SpecEnc == InitEnc /\ [][NextEnc]_vars

\* DavFile::seek(SeekFrom::Start(pos)) by the kind of handle
DavFile_seek(f, pos) ==
    IF f.kind = "Multipart" THEN [res |-> "NotImplemented", file |-> f]
    ELSE [res |-> "Ok", file |-> [f EXCEPT !.cursor.pos = pos]]

\* DavFile::seek for EncryptionFileWrapper: the inner handle's seek
EncSeek(h, pos) ==
    /\ files[h] # NoFile /\ Wrapped(h)
    /\ files' = [files EXCEPT ![h] = DavFile_seek(files[h], pos).file]
    /\ last' = [op |-> "seek", h |-> h, pos |-> pos, res |-> DavFile_seek(files[h], pos).res]
    /\ UNCHANGED <<bucket, uploads, others>>

(* One resource written through the wrapper, then read back through it     *)
(* with seeks between the reads.                                            *)
NextSeek ==
    \/ \E h \in Handles, opt \in {CreateOnly, ReadOnly} : EncOpen(h, P_ax, opt, "ok")
    \/ \E h \in Handles, b \in S3Chunks : EncWriteBytes(h, b, <<"ok", "ok">>)
    \/ \E h \in Handles, n \in 1 .. MaxWritten : EncReadBytes(h, n)
    \/ \E h \in Handles, pos \in 0 .. MaxWritten : EncSeek(h, pos)
    \/ \E h \in Handles : EncFlush(h, AllOk)
    \/ \E h \in Handles : EncClose(h)

SpecSeek == InitEnc /\ [][NextSeek]_vars

----------------------------------------------------------------------------
(* Claims about the S3 adapter's collections.                               *)

\* the tree of C2: depth two under a/, a file in each directory, no b/
DeepTree(objs) ==
    /\ {join_file(P_a, DotDir), join_file(P_ad, DotDir), P_ax, P_ady} \subseteq DOMAIN objs
    /\ \A k \in DOMAIN objs : ~StartsWith(k, P_b)

\* where the resource stored under key k of a/ belongs after a/ became b/
Moved(k) == P_b \o DropFirst(k, Len(P_a))

\* C2: after rename("/a/", "/b/") succeeds on a tree of depth two with a file in
\* each directory, metadata("/a/") is NotFound and every resource and
\* sub-collection a/<sub> is found at b/<sub>, same kind, same content.
C2_DeepRenamePreservesNesting ==
    [][(/\ last'.op = "rename" /\ last'.res = "Ok"
        /\ last'.from = P_a /\ last'.to = P_b
        /\ DeepTree(bucket))
       => /\ metadata_info(NewWorld(bucket'), P_a).res = "NotFound"
          /\ \A k \in DOMAIN bucket :
                StartsWith(k, P_a) =>
                   /\ Moved(k) \in DOMAIN bucket'
                   /\ bucket'[Moved(k)] = bucket[k]]_vars

\* the name under which a listing of D's parent shows D
NameIn(par, D) == IF is_root(par) THEN D ELSE DropFirst(D, Len(par))

HasEntryFor(entries, name, is_dir) ==
    \E i \in DOMAIN entries : entries[i].name = name /\ entries[i].metadata.is_dir = is_dir

\* C5: after create_dir(D) succeeds, metadata(D) is a collection and the listing
\* of D's parent has an entry for D of collection kind; no listing has an entry
\* for a `.dir` sentinel.
C5_CreatedCollectionIsListed ==
    /\ [][(last'.op = "create_dir" /\ last'.res = "Ok" /\ is_collection(last'.path))
          => LET D == last'.path
                 w == NewWorld(bucket')
                 m == metadata_info(w, D)
                 l == read_dir_impl(w, parent(D))
             IN /\ m.res = "Ok" /\ m.meta.is_dir
                /\ l.res = "Ok"
                /\ HasEntryFor(l.entries, NameIn(parent(D), D), TRUE)]_vars
    /\ [](last.op = "read_dir" =>
             \A i \in DOMAIN last.entries : ~EndsWith(last.entries[i].name, DotDir))

----------------------------------------------------------------------------
(* Claims about the aggregator.                                             *)

\* prefix m is p or an ancestor of p, read off the strings
AncestorOrSelf(m, pb) == m = <<SL>> \/ m = pb \/ StartsWith(pb, m \o <<SL>>)

Longest(S) == CHOOSE m \in S : \A o \in S : Len(o) <= Len(m)

\* what is left of request p after prefix m, with a leading "/"
Remainder(m, p) == IF m = <<SL>> THEN p
                   ELSE IF as_pathbuf(p) = m THEN <<SL>>
                   ELSE DropFirst(p, Len(m))
----------------------------------------------------------------------------
(* The Aggregate's filesystem operations with the routed backend's answer.  *)

\* `let (route, path) = self.find_route(&path)?; Ok(route.op(&path).await?)`
Routed(fs, path, backend) == IF find_route(fs, path).res = "Ok" THEN backend ELSE "NotFound"

\* Aggregate::open
AggOpen(path, backend) ==
    /\ last' = [op |-> "agg_open", path |-> path,
                backend |-> Called(filesystems, path, backend),
                res |-> Routed(filesystems, path, backend)]
    /\ UNCHANGED <<bucket, uploads, files, others>>

\* Aggregate::metadata
AggMetadata(path, backend) ==
    /\ IF is_root(FromDavPath(path))
       THEN last' = [op |-> "agg_metadata", path |-> path, backend |-> "none",
                     res |-> "Ok", is_dir |-> TRUE]
       ELSE last' = [op |-> "agg_metadata", path |-> path,
                     backend |-> Called(filesystems, path, backend),
                     res |-> Routed(filesystems, path, backend)]
    /\ UNCHANGED <<bucket, uploads, files, others>>

\* Aggregate::create_dir
AggCreateDir(path, backend) ==
    /\ last' = [op |-> "agg_create_dir", path |-> path,
                backend |-> Called(filesystems, path, backend),
                res |-> Routed(filesystems, path, backend)]
    /\ UNCHANGED <<bucket, uploads, files, others>>

\* Aggregate::remove_dir
AggRemoveDir(path, backend) ==
    /\ IF find_route(filesystems, path).res # "Ok"
       THEN /\ props' = props
            /\ last' = [op |-> "agg_remove_dir", path |-> path, backend |-> "none",
                        res |-> "NotFound"]
       ELSE /\ props' \in Memory_remove_dir(props, FromDavPath(path))
            /\ last' = [op |-> "agg_remove_dir", path |-> path, backend |-> backend,
                        res |-> ResultAnd(backend, "Ok")]
    /\ UNCHANGED <<bucket, uploads, files, filesystems, enc>>

\* Aggregate::copy
AggCopy(from, to, backend) ==
    /\ IF find_route(filesystems, from).res # "Ok" \/ find_route(filesystems, to).res # "Ok"
       THEN /\ props' = props
            /\ last' = [op |-> "agg_copy", from |-> from, to |-> to, backend |-> "none",
                        res |-> "NotFound"]
       ELSE /\ props' \in Memory_copy(props, FromDavPath(from), FromDavPath(to))
            /\ PropsBounded(props')
            /\ last' = [op |-> "agg_copy", from |-> from, to |-> to, backend |-> backend,
                        res |-> ResultAnd(backend, "Ok")]
    /\ UNCHANGED <<bucket, uploads, files, filesystems, enc>>

FsAnswers == {"Ok", "NotFound", "Forbidden"}

D_root == <<"/">>
D_xw   == <<"/", "x", "/", "w">>
D_x    == <<"/", "x", "/">>

ErrPaths == {D_root, D_h, D_xw, D_x}

ErrPatches == {<<it>> : it \in {i \in PatchItems : i.set /\ i.prop.namespace = <<>>}}

InitErr == NoS3 /\ NoAggregate /\ NoProps /\ NoEncryption /\ last = [op |-> "init"]

NextErr ==
    \/ \E route \in {M_root, M_x} : AddRoute(route)
    \/ \E path \in {D_h, D_xw}, patch \in ErrPatches : PatchProps(path, patch)
    \/ \E path \in ErrPaths, backend \in FsAnswers : AggOpen(path, backend)
    \/ \E path \in ErrPaths, listing \in BackendListings : AggReadDir(path, listing)
    \/ \E path \in ErrPaths, backend \in FsAnswers : AggMetadata(path, backend)
    \/ \E path \in ErrPaths, backend \in FsAnswers : AggCreateDir(path, backend)
    \/ \E path \in ErrPaths, backend \in FsAnswers : AggRemoveFile(path, backend)
    \/ \E path \in ErrPaths, backend \in FsAnswers : AggRemoveDir(path, backend)
    \/ \E from \in {D_h, D_xw} : \E to \in {D_h, D_xw} \ {from}, backend \in FsAnswers :
          AggRename(from, to, backend)
    \/ \E from \in {D_h, D_xw} : \E to \in {D_h, D_xw} \ {from}, backend \in FsAnswers :
          AggCopy(from, to, backend)

SpecErr == InitErr /\ [][NextErr]_vars

----------------------------------------------------------------------------
(* The file-backed store: a Memory store mirrored in a file on every call.  *)
(* `props` holds the Memory data and the file, <<>> while no file exists;   *)
(* the file holds the map of the last dump.                                 *)

\* the alphabet of base64::encode and base64::decode
STANDARD_ALPHABET ==
    <<"A", "B", "C", "D", "E", "F", "G", "H", "I", "J", "K", "L", "M", "N", "O", "P",
      "Q", "R", "S", "T", "U", "V", "W", "X", "Y", "Z", "a", "b", "c", "d", "e", "f",
      "g", "h", "i", "j", "k", "l", "m", "n", "o", "p", "q", "r", "s", "t", "u", "v",
      "w", "x", "y", "z", "0", "1", "2", "3", "4", "5", "6", "7", "8", "9", "+", "/">>

Sextet(c) == (CHOOSE i \in DOMAIN STANDARD_ALPHABET : STANDARD_ALPHABET[i] = c) - 1

Symbol(n) == STANDARD_ALPHABET[n + 1]

\* base64::encode
RECURSIVE Base64Encode(_)
Base64Encode(b) ==
    IF Len(b) = 0 THEN <<>>
    ELSE IF Len(b) = 1
         THEN <<Symbol(b[1] \div 4), Symbol((b[1] % 4) * 16), "=", "=">>
    ELSE IF Len(b) = 2
         THEN <<Symbol(b[1] \div 4), Symbol(((b[1] % 4) * 16) + (b[2] \div 16)),
                Symbol((b[2] % 16) * 4), "=">>
    ELSE <<Symbol(b[1] \div 4), Symbol(((b[1] % 4) * 16) + (b[2] \div 16)),
           Symbol(((b[2] % 16) * 4) + (b[3] \div 64)), Symbol(b[3] % 64)>>
         \o Base64Encode(DropFirst(b, 3))

\* the bytes of a well-formed base64 text
RECURSIVE Base64Bytes(_)
Base64Bytes(c) ==
    IF Len(c) = 0 THEN <<>>
    ELSE IF c[3] = "="
         THEN <<(Sextet(c[1]) * 4) + (Sextet(c[2]) \div 16)>>
    ELSE IF c[4] = "="
         THEN <<(Sextet(c[1]) * 4) + (Sextet(c[2]) \div 16),
                ((Sextet(c[2]) % 16) * 16) + (Sextet(c[3]) \div 4)>>
    ELSE <<(Sextet(c[1]) * 4) + (Sextet(c[2]) \div 16),
           ((Sextet(c[2]) % 16) * 16) + (Sextet(c[3]) \div 4),
           ((Sextet(c[3]) % 4) * 64) + Sextet(c[4])>>
         \o Base64Bytes(DropFirst(c, 4))

\* base64::decode(..).map(|k| Some(k)).unwrap_or(None)
Base64Decode(c) ==
    IF Len(c) % 4 = 0
       /\ \A i \in DOMAIN c :
             \/ \E j \in DOMAIN STANDARD_ALPHABET : STANDARD_ALPHABET[j] = c[i]
             \/ c[i] = "=" /\ i > Len(c) - 2
    THEN <<Base64Bytes(c)>>
    ELSE <<>>

\* the map Yaml::dump writes
Yaml_dump(data) ==
    {[key |-> e.key,
      prop |-> [namespace |-> e.prop.namespace, name |-> e.prop.name,
                value |-> IF e.prop.xml = <<>> THEN <<>>
                          ELSE <<Base64Encode(e.prop.xml[1])>>]] : e \in data}

\* the loop of Yaml::load over the map read from the file; the entries have
\* distinct keys
RECURSIVE Yaml_load(_, _)
Yaml_load(mem, entries) ==
    IF entries = {} THEN mem
    ELSE LET Add(e) ==
                 Yaml_load(Memory_add_prop(mem, FromString(e.key), TRUE,
                                           DavProp(e.prop.name, e.prop.namespace,
                                                   IF e.prop.value = <<>> THEN <<>>
                                                   ELSE Base64Decode(e.prop.value[1]))).data,
                           entries \ {e})
         IN Add(CHOOSE e \in entries : TRUE)

MaxYamlKey == 9

YamlBounded(data) ==
    Cardinality(data) <= MaxProps /\ \A e \in data : Len(e.key) <= MaxYamlKey

\* the store after self.dump()
Dumped(mem) == [mem |-> mem, file |-> <<Yaml_dump(mem)>>]

\* PropStorage::patch_prop for Yaml
YamlPatchProp(path, set, prop) ==
    /\ props' = Dumped(Memory_add_prop(props.mem, FromDavPath(path), set, prop).data)
    /\ YamlBounded(props'.mem)
    /\ last' = [op |-> "yaml_patch_prop", path |-> path, set |-> set, prop |-> prop,
                res |-> "Ok"]
    /\ UNCHANGED <<bucket, uploads, files, filesystems, enc>>

\* PropStorage::get_prop for Yaml
YamlGetProp(path, prop) ==
    /\ props' = IF Memory_get_prop(props.mem, FromDavPath(path), prop).res = "Ok"
                THEN Dumped(props.mem) ELSE props
    /\ last' = [op |-> "yaml_get_prop", path |-> path, prop |-> prop,
                got |-> Memory_get_prop(props.mem, FromDavPath(path), prop)]
    /\ UNCHANGED <<bucket, uploads, files, filesystems, enc>>

\* Yaml::new on the path of the file the store before it dumped
YamlNew ==
    /\ props' = [mem |-> IF props.file = <<>> THEN {} ELSE Yaml_load({}, props.file[1]),
                 file |-> props.file]
    /\ YamlBounded(props'.mem)
    /\ last' = [op |-> "yaml_new", loaded |-> props.file # <<>>]
    /\ UNCHANGED <<bucket, uploads, files, filesystems, enc>>

InitYaml ==
    /\ NoS3 /\ NoAggregate /\ NoEncryption
    /\ props = [mem |-> {}, file |-> <<>>]
    /\ last = [op |-> "init"]

NextYaml ==
    \/ \E path \in PropPaths, set \in BOOLEAN, prop \in DavProps : YamlPatchProp(path, set, prop)
    \/ \E path \in PropPaths, prop \in DavProps : YamlGetProp(path, prop)
    \/ YamlNew

SpecYaml == InitYaml /\ [][NextYaml]_vars

(* Concurrent calls on the file-backed store.  The file is a sequence of    *)
(* lines; a task's call is the change of the map, then the dump: its lock   *)
(* (in the variant that has one), the snapshot and the open of the file,    *)
(* one write per line, and the return.                                      *)
MaxTasks == 2

Tasks == 1 .. MaxTasks

Idle == [pc |-> "idle"]

\* serde_yaml::to_writer of the map with its entries in the order `keys`
RECURSIVE LinesOf(_, _)
LinesOf(dump, keys) ==
    IF keys = <<>> THEN <<>>
    ELSE LET Entry(e) == <<[key |-> e.key], [value |-> e.prop]>>
         IN Entry(CHOOSE e \in dump : e.key = Head(keys)) \o LinesOf(dump, Tail(keys))

\* the orders of a set of keys
KeyOrders(S) ==
    {o \in [1 .. Cardinality(S) -> S] : \A i, j \in DOMAIN o : i # j => o[i] # o[j]}

\* the texts to_writer can produce: the BTreeMap of the variant with the
\* mutex is written in key order, the HashMap of the other in any order
Serializations(mem, variant) ==
    IF mem = {} THEN {<<[empty |-> TRUE]>>}
    ELSE {LinesOf(Yaml_dump(mem), o) :
             o \in IF variant = "mutex" THEN {SortKeys({e.key : e \in mem})}
                   ELSE KeyOrders({e.key : e \in mem})}

\* File::write at offset pos of a file opened without truncate
FileWrite(file, pos, line) ==
    IF pos < Len(file) THEN [file EXCEPT ![pos + 1] = line] ELSE Append(file, line)

\* OpenOptions::new().create(true).write(true).open(..): the content stays
OpenForWrite(file) == file

\* Yaml::patch_prop up to the call of dump: Memory::patch_prop
DumpCall(t, path, set, prop) ==
    /\ props.tasks[t] = Idle
    /\ props' = [props EXCEPT !.mem = Memory_add_prop(@, FromDavPath(path), set, prop).data,
                              !.tasks[t] = [pc |-> "dump"]]
    /\ last' = [op |-> "yaml_patch_prop", t |-> t, path |-> path, set |-> set, prop |-> prop]
    /\ UNCHANGED <<bucket, uploads, files, filesystems, enc>>

\* Yaml::dump: the lock, get_all_props, the map to write and the open
DumpLock(t) ==
    /\ props.tasks[t].pc = "dump"
    /\ props.variant = "mutex" => props.mutex = 0
    /\ \E lines \in Serializations(props.mem, props.variant) :
          props' = [props EXCEPT !.mutex = IF props.variant = "mutex" THEN t ELSE @,
                                 !.file = OpenForWrite(@),
                                 !.tasks[t] = [pc |-> "write", lines |-> lines, pos |-> 0]]
    /\ last' = [op |-> "yaml_dump", t |-> t]
    /\ UNCHANGED <<bucket, uploads, files, filesystems, enc>>

\* Yaml::dump: one write of to_writer
DumpWrite(t) ==
    /\ props.tasks[t].pc = "write"
    /\ props.tasks[t].pos < Len(props.tasks[t].lines)
    /\ props' = [props EXCEPT !.file = FileWrite(@, props.tasks[t].pos,
                                                 props.tasks[t].lines[props.tasks[t].pos + 1]),
                              !.tasks[t].pos = @ + 1]
    /\ last' = [op |-> "yaml_write", t |-> t]
    /\ UNCHANGED <<bucket, uploads, files, filesystems, enc>>

\* Yaml::dump returns, the guard is dropped, and patch_prop returns
DumpReturn(t) ==
    /\ props.tasks[t].pc = "write"
    /\ props.tasks[t].pos = Len(props.tasks[t].lines)
    /\ props' = [props EXCEPT !.mutex = IF @ = t THEN 0 ELSE @,
                              !.tasks[t] = Idle]
    /\ last' = [op |-> "yaml_returned", t |-> t]
    /\ UNCHANGED <<bucket, uploads, files, filesystems, enc>>

InitDump ==
    /\ NoS3 /\ NoAggregate /\ NoEncryption
    /\ props \in [mem : {{}}, file : {<<>>}, mutex : {0}, tasks : {[t \in Tasks |-> Idle]},
                  variant : {"mutex", "plain"}]
    /\ last = [op |-> "init"]

NextDump ==
    \/ \E t \in Tasks, set \in BOOLEAN, prop \in DavProps : DumpCall(t, D_h, set, prop)
    \/ \E t \in Tasks : DumpLock(t)
    \/ \E t \in Tasks : DumpWrite(t)
    \/ \E t \in Tasks : DumpReturn(t)

SpecDump == InitDump /\ [][NextDump]_vars

----------------------------------------------------------------------------
(* The embedded key-value store: the bucket "values" from property keys to  *)
(* payloads and the bucket "existence" from paths to property keys.         *)
(* `props` holds the two buckets, and in `ever` the (path, namespace, name) *)
(* triples that were set so far, which the code does not keep.              *)

\* Bucket::get
BucketGet(b, k) == IF \E e \in b : e.key = k THEN <<(CHOOSE e \in b : e.key = k).value>> ELSE <<>>

\* Bucket::set
BucketSet(b, k, v) == {e \in b : e.key # k} \cup {[key |-> k, value |-> v]}

\* Bucket::remove
BucketRemove(b, k) == {e \in b : e.key # k}

\* PropKey::from_davprop and PropKey::as_key: the fields in the order of the
\* struct; no request of the model carries a prefix
as_key(prop) == <<prop.name, <<>>, prop.namespace>>

\* bincode::serialize of an Option<Vec<u8>>: the tag, the length, the bytes
SerializeXml(xml) == IF xml = <<>> THEN <<0>> ELSE <<1, Len(xml[1])>> \o xml[1]

\* bincode::deserialize of an Option<Vec<u8>>
DeserializeXml(v) == IF v[1] = 0 THEN <<>> ELSE <<SubSeq(v, 3, 2 + v[2])>>

\* Kv::get_davprop
Kv_get_davprop(store, path) ==
    LET Value(k, v) == IF v = <<>> THEN [res |-> "NotFound"]
                       ELSE [res |-> "Ok", prop |-> DavProp(k[1], k[3], DeserializeXml(v[1]))]
        Key(k) == IF k = <<>> THEN [res |-> "NotFound"]
                  ELSE Value(k[1], BucketGet(store.values, k[1]))
    IN Key(BucketGet(store.existence, path))

\* PropStorage::get_prop for Kv
Kv_get_prop(store, path, prop) ==
    LET Payload(p) == IF p.res # "Ok" \/ p.prop.xml = <<>> THEN [res |-> "NotFound"]
                      ELSE [res |-> "Ok", xml |-> p.prop.xml[1]]
    IN Payload(Kv_get_davprop(store, path))

\* PropStorage::patch_prop for Kv: the two buckets after the call
Kv_patch_prop(store, path, set, prop) ==
    IF set
    THEN [values |-> BucketSet(store.values, as_key(prop), SerializeXml(prop.xml)),
          existence |-> BucketSet(store.existence, path, as_key(prop))]
    ELSE [values |-> BucketRemove(store.values, as_key(prop)),
          existence |-> BucketRemove(store.existence, path)]

Named(X) == <<X.namespace, X.name>>

KvPatchProp(path, set, prop) ==
    /\ props' = [values |-> Kv_patch_prop(props, FromDavPath(path), set, prop).values,
                 existence |-> Kv_patch_prop(props, FromDavPath(path), set, prop).existence,
                 ever |-> IF set THEN props.ever \cup {<<path, Named(prop)>>} ELSE props.ever]
    /\ last' = [op |-> "kv_patch_prop", path |-> path, set |-> set, prop |-> prop,
                res |-> "Ok"]
    /\ UNCHANGED <<bucket, uploads, files, filesystems, enc>>

KvGetProp(path, prop) ==
    /\ last' = [op |-> "kv_get_prop", path |-> path, prop |-> prop,
                got |-> Kv_get_prop(props, FromDavPath(path), prop)]
    /\ UNCHANGED <<bucket, uploads, files, others>>

InitKv ==
    /\ NoS3 /\ NoAggregate /\ NoEncryption
    /\ props = [values |-> {}, existence |-> {}, ever |-> {}]
    /\ last = [op |-> "init"]

NextKv ==
    \/ \E path \in PropPaths, set \in BOOLEAN, prop \in DavProps : KvPatchProp(path, set, prop)
    \/ \E path \in PropPaths, prop \in DavProps : KvGetProp(path, prop)

SpecKv == InitKv /\ [][NextKv]_vars

\* Kv::remove_file
Kv_remove_file(store, path) ==
    LET Entry(v) == IF v = <<>> THEN [values |-> store.values, existence |-> store.existence]
                    ELSE [values |-> BucketRemove(store.values, v[1]),
                          existence |-> BucketRemove(store.existence, path)]
    IN Entry(BucketGet(store.existence, path))

\* PropStorage::rename for Kv: the two buckets after the whole call
Kv_rename(store, from, to) ==
    LET Old(d) == IF d.res # "Ok" THEN [values |-> store.values, existence |-> store.existence]
                  ELSE Kv_patch_prop(Kv_remove_file(store, from), to, TRUE, d.prop)
    IN Old(Kv_get_davprop(store, from))

\* PropStorage::copy for Kv: the two buckets after the whole call
Kv_copy(store, from, to) ==
    LET Old(d) == IF d.res # "Ok" THEN [values |-> store.values, existence |-> store.existence]
                  ELSE Kv_patch_prop(store, to, TRUE, d.prop)
    IN Old(Kv_get_davprop(store, from))

(* Calls on one Kv store from several tasks of the runtime: the store is    *)
(* shared by reference and no call takes a lock, so that a call is a        *)
(* sequence of calls on the two buckets, each of them a step of its own.    *)
(* `props.call` is the mutation in flight with the place it has reached and *)
(* `props.pre` the two buckets when it was called.                          *)
NoCall == [op |-> "none"]

Buckets(store) == [values |-> store.values, existence |-> store.existence]

\* the two buckets after the whole of the call in flight, applied to the
\* buckets it was called on
AfterCall(call, pre) ==
    CASE call.op = "patch_prop" -> Kv_patch_prop(pre, call.path, call.set, call.prop)
      [] call.op = "rename" -> Kv_rename(pre, call.path, call.to)
      [] call.op = "copy" -> Kv_copy(pre, call.path, call.to)

KvStore(values, existence, call, pre) ==
    [values |-> values, existence |-> existence, call |-> call, pre |-> pre]

\* a call of patch_prop: the first bucket call of its branch comes next
KvCallPatch(path, set, prop) ==
    /\ props.call = NoCall
    /\ props' = KvStore(props.values, props.existence,
                        [op |-> "patch_prop", path |-> FromDavPath(path), set |-> set,
                         prop |-> prop, key |-> as_key(prop),
                         pc |-> IF set THEN "set_values" ELSE "remove_values"],
                        Buckets(props))
    /\ last' = [op |-> "kv_call", call |-> "patch_prop"]
    /\ UNCHANGED <<bucket, uploads, files, filesystems, enc>>

\* a call of rename or of copy: get_davprop(from) comes first, and its error
\* ends the call
KvCallMove(op, from, to) ==
    LET Got(d) ==
            IF d.res # "Ok" THEN NoCall
            ELSE [op |-> op, path |-> FromDavPath(from), to |-> FromDavPath(to),
                  prop |-> d.prop, key |-> as_key(d.prop),
                  pc |-> IF op = "rename" THEN "remove_file" ELSE "set_values"]
    IN /\ props.call = NoCall
       /\ props' = KvStore(props.values, props.existence,
                           Got(Kv_get_davprop(props, FromDavPath(from))), Buckets(props))
       /\ last' = [op |-> "kv_call", call |-> op]
       /\ UNCHANGED <<bucket, uploads, files, filesystems, enc>>

\* Kv::remove_file in rename: the path's entry is read and, when it is there,
\* its payload removed
KvRemoveFile ==
    LET Entry(v) ==
            IF v = <<>>
            THEN KvStore(props.values, props.existence,
                         [props.call EXCEPT !.pc = "set_values"], props.pre)
            ELSE KvStore(BucketRemove(props.values, v[1]), props.existence,
                         [props.call EXCEPT !.pc = "remove_existence"], props.pre)
    IN /\ props.call # NoCall /\ props.call.pc = "remove_file"
       /\ props' = Entry(BucketGet(props.existence, props.call.path))
       /\ last' = [op |-> "kv_step", pc |-> "remove_file"]
       /\ UNCHANGED <<bucket, uploads, files, filesystems, enc>>

\* bucket.remove(&k.as_key()) of patch_prop
KvRemoveValues ==
    /\ props.call # NoCall /\ props.call.pc = "remove_values"
    /\ props' = KvStore(BucketRemove(props.values, props.call.key), props.existence,
                        [props.call EXCEPT !.pc = "remove_existence"], props.pre)
    /\ last' = [op |-> "kv_step", pc |-> "remove_values"]
    /\ UNCHANGED <<bucket, uploads, files, filesystems, enc>>

\* ex_bucket.remove(&path): the last call of patch_prop's removal, and in a
\* rename the one before patch_prop(to)
KvRemoveExistence ==
    /\ props.call # NoCall /\ props.call.pc = "remove_existence"
    /\ props' = KvStore(props.values, BucketRemove(props.existence, props.call.path),
                        IF props.call.op = "rename"
                        THEN [props.call EXCEPT !.pc = "set_values"] ELSE NoCall,
                        props.pre)
    /\ last' = [op |-> "kv_step", pc |-> "remove_existence"]
    /\ UNCHANGED <<bucket, uploads, files, filesystems, enc>>

\* bucket.set(&k.as_key(), &v) of patch_prop
KvSetValues ==
    /\ props.call # NoCall /\ props.call.pc = "set_values"
    /\ props' = KvStore(BucketSet(props.values, props.call.key,
                                  SerializeXml(props.call.prop.xml)),
                        props.existence,
                        [props.call EXCEPT !.pc = "set_existence"], props.pre)
    /\ last' = [op |-> "kv_step", pc |-> "set_values"]
    /\ UNCHANGED <<bucket, uploads, files, filesystems, enc>>

\* ex_bucket.set(&path, &k.as_key()) of patch_prop, which ends every call
KvSetExistence ==
    /\ props.call # NoCall /\ props.call.pc = "set_existence"
    /\ props' = KvStore(props.values,
                        BucketSet(props.existence,
                                  IF props.call.op = "patch_prop" THEN props.call.path
                                  ELSE props.call.to,
                                  props.call.key),
                        NoCall, props.pre)
    /\ last' = [op |-> "kv_step", pc |-> "set_existence"]
    /\ UNCHANGED <<bucket, uploads, files, filesystems, enc>>

InitKvCalls ==
    /\ NoS3 /\ NoAggregate /\ NoEncryption
    /\ props = KvStore({}, {}, NoCall, [values |-> {}, existence |-> {}])
    /\ last = [op |-> "init"]

NextKvCalls ==
    \/ \E path \in PropPaths, set \in BOOLEAN, prop \in DavProps : KvCallPatch(path, set, prop)
    \/ \E op \in {"rename", "copy"}, from, to \in PropPaths : KvCallMove(op, from, to)
    \/ KvRemoveFile
    \/ KvRemoveValues
    \/ KvRemoveExistence
    \/ KvSetValues
    \/ KvSetExistence
    \/ \E path \in PropPaths, prop \in DavProps : KvGetProp(path, prop)

SpecKvCalls == InitKvCalls /\ [][NextKvCalls]_vars

----------------------------------------------------------------------------
(* NormalizedPath on its own: a path and, on it, one call of strip_prefix,  *)
(* of join_file or of join_dir. `last.self` is the path, as From<String>    *)
(* makes it, and `last.out` what the call returned.                         *)
MaxPathLen == 4

MaxTokenLen == 3

PathChars == {"a", SL}

\* the strings of PathChars of the lengths lo..hi
StringsOf(lo, hi) == UNION {[1..n -> PathChars] : n \in lo..hi}

\* the values a NormalizedPath takes: From<String> leaves them as they are
NormalizedPaths == {p \in StringsOf(1, MaxPathLen) : FromString(p) = p}

Tokens == StringsOf(0, MaxTokenLen)

StripPrefix(prefix) ==
    /\ last' = [op |-> "strip_prefix", self |-> last.self, prefix |-> prefix,
                out |-> strip_prefix(last.self, prefix)]
    /\ UNCHANGED <<bucket, uploads, files, others>>

JoinFile(token) ==
    /\ last' = [op |-> "join_file", self |-> last.self, token |-> token,
                out |-> join_file(last.self, token)]
    /\ UNCHANGED <<bucket, uploads, files, others>>

JoinDir(token) ==
    /\ last' = [op |-> "join_dir", self |-> last.self, token |-> token,
                out |-> join_dir(last.self, token)]
    /\ UNCHANGED <<bucket, uploads, files, others>>

InitPath ==
    /\ NoS3 /\ NoAggregate /\ NoProps /\ NoEncryption
    /\ \E p \in NormalizedPaths : last = [op |-> "init", self |-> p]

NextPath ==
    \/ \E prefix \in NormalizedPaths : StripPrefix(prefix)
    \/ \E token \in Tokens : JoinFile(token)
    \/ \E token \in Tokens : JoinDir(token)

SpecPath == InitPath /\ [][NextPath]_vars

----------------------------------------------------------------------------
(* The mount table with its backends: in the specification below            *)
(* `filesystems` holds the HashMap itself, one binding for each key.        *)

Backends == {"s3", "mem"}

Binding(route, fs) == [key |-> route, fs |-> fs]

\* HashMap::keys
RouteKeys(table) == {e.key : e \in table}

\* add_route replacing the binding of a registered prefix; the code must not
\* behave like this
AddRouteOverwriting(table, route, fs) ==
    [res |-> "Ok", table |-> {e \in table : e.key # route} \cup {Binding(route, fs)}]

\* Aggregate::add_route on the table
Aggregate_add_route(table, route, fs) ==
    IF route \in RouteKeys(table) THEN [res |-> "Err", table |-> table]
    ELSE [res |-> "Ok", table |-> table \cup {Binding(route, fs)}]

\* the loop of AggregateBuilder::build, which stops at the first error
RECURSIVE AggregateBuilder_build(_, _)
AggregateBuilder_build(table, routes) ==
    IF routes = <<>> THEN [res |-> "Ok", table |-> table]
    ELSE LET Added(r) == IF r.res # "Ok" THEN [res |-> "Err", table |-> table]
                         ELSE AggregateBuilder_build(r.table, Tail(routes))
         IN Added(Aggregate_add_route(table, Head(routes).key, Head(routes).fs))

\* find_route with the backend it returns: self.filesystems.get(&p).unwrap().clone()
find_route_fs(table, route) ==
    LET Bound(r) == IF r.res # "Ok" THEN r
                    ELSE [res |-> "Ok", route |-> r.route, path |-> r.path,
                          fs |-> (CHOOSE e \in table : e.key = r.route).fs]
    IN Bound(find_route(RouteKeys(table), route))

MaxRoutes == 2

BuilderRoutes ==
    UNION {[1 .. n -> {Binding(r, fs) : r \in {M_root, M_x, M_xy}, fs \in Backends}] :
              n \in 0 .. MaxRoutes}

\* Aggregate::add_route
AddRouteFs(route, fs) ==
    /\ filesystems' = Aggregate_add_route(filesystems, route, fs).table
    /\ last' = [op |-> "add_route_fs", route |-> route, fs |-> fs,
                res |-> Aggregate_add_route(filesystems, route, fs).res]
    /\ UNCHANGED <<bucket, uploads, files, props, enc>>

\* AggregateBuilder::build: a new Aggregate takes the place of the old one
\* when the build succeeded
Build(routes) ==
    /\ filesystems' = IF AggregateBuilder_build({}, routes).res = "Ok"
                      THEN AggregateBuilder_build({}, routes).table ELSE filesystems
    /\ last' = [op |-> "build", routes |-> routes,
                res |-> AggregateBuilder_build({}, routes).res]
    /\ UNCHANGED <<bucket, uploads, files, props, enc>>

\* Aggregate::find_route
FindRouteFs(route) ==
    /\ last' = [op |-> "find_route_fs", path |-> route,
                found |-> find_route_fs(filesystems, route)]
    /\ UNCHANGED <<bucket, uploads, files, others>>

\* a call the aggregator makes to a backend
BackendCall(fs, op, from, to) == [fs |-> fs, op |-> op, from |-> from, to |-> to]

\* a rename or copy handed to the backend `to` routes to; the code must not
\* behave like this
DispatchToTarget(table, op, from, to) ==
    LET Routed2(f, t) ==
            IF f.res # "Ok" \/ t.res # "Ok" THEN [res |-> "NotFound", calls |-> <<>>]
            ELSE [res |-> "Ok", calls |-> <<BackendCall(t.fs, op, f.path, t.path)>>]
    IN Routed2(find_route_fs(table, from), find_route_fs(table, to))

\* `let (route, from) = self.find_route(&from)?; let (_, to) = self.find_route(&to)?;
\* route.op(&from, &to)`: the calls Aggregate::rename and Aggregate::copy make
Dispatch(table, op, from, to) ==
    LET Routed2(f, t) ==
            IF f.res # "Ok" \/ t.res # "Ok" THEN [res |-> "NotFound", calls |-> <<>>]
            ELSE [res |-> "Ok", calls |-> <<BackendCall(f.fs, op, f.path, t.path)>>]
    IN Routed2(find_route_fs(table, from), find_route_fs(table, to))

\* Aggregate::rename over the mount table, the backend answering Ok
RenameFs(from, to) ==
    /\ last' = [op |-> "rename_fs", from |-> from, to |-> to,
                res |-> Dispatch(filesystems, "rename", from, to).res,
                calls |-> Dispatch(filesystems, "rename", from, to).calls]
    /\ props' \in IF Dispatch(filesystems, "rename", from, to).res # "Ok" THEN {props}
                  ELSE Memory_rename(props, FromDavPath(from), FromDavPath(to))
    /\ UNCHANGED <<bucket, uploads, files, filesystems, enc>>

\* Aggregate::copy over the mount table, the backend answering Ok
CopyFs(from, to) ==
    /\ last' = [op |-> "copy_fs", from |-> from, to |-> to,
                res |-> Dispatch(filesystems, "copy", from, to).res,
                calls |-> Dispatch(filesystems, "copy", from, to).calls]
    /\ props' \in IF Dispatch(filesystems, "copy", from, to).res # "Ok" THEN {props}
                  ELSE Memory_copy(props, FromDavPath(from), FromDavPath(to))
    /\ UNCHANGED <<bucket, uploads, files, filesystems, enc>>

\* requests below /x/y, below /x and below the root
MovePaths == {<<"/", "x", "/", "y", "/", "z">>, <<"/", "x", "/", "w">>, <<"/", "a">>}

InitMount == NoS3 /\ NoAggregate /\ NoProps /\ NoEncryption /\ last = [op |-> "init"]

NextMount ==
    \/ \E route \in {M_root, M_x, M_xy}, fs \in Backends : AddRouteFs(route, fs)
    \/ \E routes \in BuilderRoutes : Build(routes)
    \/ \E route \in Requests : FindRouteFs(route)
    \/ \E from \in MovePaths, to \in MovePaths : RenameFs(from, to)
    \/ \E from \in MovePaths, to \in MovePaths : CopyFs(from, to)

SpecMount == InitMount /\ [][NextMount]_vars


\* C3: find_route(p) resolves to the registered prefix that is the deepest
\* ancestor-or-self of p, with the remainder of p after it as the relative path;
\* it is NotFound iff no registered prefix is an ancestor-or-self of p.
C3_FindRouteDeepestAncestor ==
    last.op = "find_route" =>
        LET covering == {m \in filesystems : AncestorOrSelf(m, as_pathbuf(last.path))}
        IN IF covering = {} THEN last.found.res = "NotFound"
           ELSE /\ last.found.res = "Ok"
                /\ last.found.route = Longest(covering)
                /\ last.found.path = Remainder(Longest(covering), last.path)

C3_Witness ==
    /\ last.op = "find_route" /\ {M_x, M_xy} \subseteq filesystems
    /\ last.path = <<"/", "x", "/", "y", "/", "z">>
    /\ last.found.res = "Ok" /\ last.found.route = M_xy
    /\ last.found.path = <<"/", "z">>

\* the first segments that registered prefixes have strictly below level L
SegmentsBelow(fs, L) ==
    {Components(m)[Len(Components(L)) + 1] :
        m \in {k \in fs : /\ Len(Components(k)) > Len(Components(L))
                          /\ SubSeq(Components(k), 1, Len(Components(L))) = Components(L)}}

SyntheticNames(entries) == {entries[i].name : i \in {j \in DOMAIN entries : entries[j].synthetic}}

\* C4: read_dir(L) yields, for each distinct first segment s that a mount prefix
\* has strictly below L, one collection entry named `s/`; a mount at L itself
\* contributes none and duplicate first segments yield one entry.
C4_SyntheticEntriesNamedBySegment ==
    (last.op = "agg_read_dir" /\ is_collection(last.path)) =>
        /\ SyntheticNames(last.entries)
              = {s \o <<SL>> : s \in SegmentsBelow(filesystems, last.path)}
        /\ Cardinality({j \in DOMAIN last.entries : last.entries[j].synthetic})
              = Cardinality(SegmentsBelow(filesystems, last.path))
        /\ \A j \in DOMAIN last.entries : last.entries[j].synthetic => last.entries[j].is_dir

----------------------------------------------------------------------------
(* Claims about dead properties.                                            *)

\* the entry a set of X on path p stores
Stored(p, X) == [key |-> get_prop_string(p, X), prop |-> X]

\* C6: setting a property X on p twice leaves exactly one stored property
\* for (p, namespace(X), name(X)), namely X, and leaves every other key as it
\* was; a patch that ends by removing X leaves get_prop(p, X) NotFound;
\* removing a property that is not stored succeeds and leaves the store
\* unchanged, and so does setting again what is already stored.
C6_IdempotentSet ==
    [][(last'.op = "patch_props")
        => LET p == FromDavPath(last'.path)
               patch == last'.patch
               final == patch[Len(patch)]
           IN /\ last'.res = "Ok"
              /\ (Len(patch) = 2 /\ patch[1] = patch[2] /\ patch[1].set)
                    => /\ MapGet(props', get_prop_string(p, final.prop)) = {Stored(p, final.prop)}
                       /\ MapRemove(props', get_prop_string(p, final.prop))
                            = MapRemove(props, get_prop_string(p, final.prop))
              /\ ~final.set => Memory_get_prop(props', p, final.prop).res = "NotFound"
              /\ (Len(patch) = 1 /\ ~final.set
                    /\ MapGet(props, get_prop_string(p, final.prop)) = {})
                    => props' = props
              /\ (Len(patch) = 1 /\ final.set /\ Stored(p, final.prop) \in props)
                    => props' = props]_vars

\* a payload set twice over a different payload that was stored before
C6_Witness ==
    /\ last.op = "patch_props" /\ Len(last.patch) = 2
    /\ last.patch[1] = last.patch[2] /\ last.patch[1].set
    /\ last.patch[1].prop.xml = <<<<2>>>>
    /\ Cardinality(props) = MaxProps
    /\ Stored(FromDavPath(last.path), last.patch[1].prop) \in props

\* C8: after Aggregate.remove_file(p) succeeds, get_props(p) returns no
\* property, however many were set on p, and every property that was stored
\* on another path is still stored.
C8_RemoveFileRemovesProps ==
    [][(last'.op = "agg_remove_file" /\ last'.res = "Ok")
        => LET p == FromDavPath(last'.path)
           IN /\ \A found \in Memory_get_props(props', p, TRUE) : found = <<>>
              /\ \A e \in props : e.key # get_prop_string(p, e.prop) => e \in props']_vars

\* C10: after Memory rename(from, to), every property X that was stored
\* under `from` is read at `to` with the payload it had at `from`, and is
\* NotFound at `from`, whatever the store held before (a property of the same
\* namespace and name at `to` included).
C10_RenameMovesPayloads ==
    [][(last'.op = "agg_rename" /\ last'.res = "Ok")
        => LET from == FromDavPath(last'.from)
               to == FromDavPath(last'.to)
           IN \A e \in props :
                (e.key = get_prop_string(from, e.prop) /\ e.prop.xml # <<>>)
                => /\ Memory_get_prop(props', to, e.prop) = Memory_get_prop(props, from, e.prop)
                   /\ Memory_get_prop(props', from, e.prop).res = "NotFound"]_vars

----------------------------------------------------------------------------
(* Claims about the encryption wrapper.                                     *)

\* the keystream is zero over the first n bytes
KeystreamZero(n) == \A i \in 1 .. n : enc.ks[i] = 0

\* a reader opened on what a wrapped writer flushed, which has only read so far
SealedRead ==
    /\ last.op = "read_bytes" /\ last.res = "Ok"
    /\ last.expect # <<>> /\ last.sealed

\* the first read, of the whole content, of a handle opened around the wrapper
BypassRead == SealedRead /\ ~last.wrapped /\ last.pos0 = 0 /\ last.count = Len(last.expect[1])

\* reads through the wrapper that so far total the length of the content
WrappedRead ==
    SealedRead /\ last.wrapped /\ last.written = <<>> /\ Len(last.got) = Len(last.expect[1])

\* C7 as stated: B written through the wrapper (in any chunking) and flushed
\* is read back as B through a newly opened wrapped handle (in any chunking),
\* and a read of the same object around the wrapper yields bytes different
\* from B whenever B is not empty.
C7_EncryptionComposition ==
    /\ WrappedRead => last.got = last.expect[1]
    /\ (BypassRead /\ last.expect[1] # <<>>) => last.out # last.expect[1]

\* C7 amended: the round trip through the wrapper yields B; around the wrapper
\* the read yields B combined with the head of the keystream, which differs
\* from B exactly when some keystream byte over the length of B is not zero.
C7_EncryptionRoundTrip ==
    /\ WrappedRead => last.got = last.expect[1]
    /\ BypassRead
        => /\ last.out = [i \in 1 .. Len(last.expect[1]) |->
                            BitXor(last.expect[1][i], enc.ks[i])]
           /\ (last.out # last.expect[1]) <=> ~KeystreamZero(Len(last.expect[1]))

\* two bytes read back through the wrapper one at a time, under a keystream
\* whose first two bytes differ
C7_Witness ==
    /\ WrappedRead /\ last.count = 1 /\ Len(last.got) = MaxWritten
    /\ enc.ks[1] # enc.ks[2]

----------------------------------------------------------------------------
(* Claims about streaming uploads.                                          *)

\* the sizes of the parts of session id, in part-number order
PartSizes(id) == [n \in DOMAIN uploads[id].parts |-> Len(uploads[id].parts[n])]

\* a clean flush of a Multipart handle that took more than twice the threshold
BigUploadFlushed ==
    /\ last.op = "flush" /\ last.res = "Ok" /\ last.kind = "Multipart" /\ last.clean
    /\ Len(last.written) > 2 * CHUNK_SIZE
    /\ uploads[last.h] # NoUpload /\ uploads[last.h].state = "completed"

\* at least two parts, every part but the last at least the threshold, and
\* the object is exactly the bytes written
StreamedInParts ==
    /\ Len(PartSizes(last.h)) >= 2
    /\ \A n \in 1 .. Len(PartSizes(last.h)) - 1 : PartSizes(last.h)[n] >= CHUNK_SIZE
    /\ last.path \in DOMAIN bucket
    /\ bucket[last.path] = last.written

\* C9 as stated: for any sequence of writes totalling more than 2*T bytes
\* followed by flush, at least two parts are uploaded, every part except the
\* last has size >= T, and the completed object equals the bytes written.
C9_StreamingUpload == BigUploadFlushed => StreamedInParts

\* C9 amended: the same, for writes of at most T bytes each.
C9_StreamingUploadSmallWrites ==
    (BigUploadFlushed /\ last.widest <= CHUNK_SIZE) => StreamedInParts

\* a body of more than 2*T bytes streamed in writes of at most T bytes, the
\* last part put by flush
C9_Witness ==
    /\ BigUploadFlushed /\ last.widest <= CHUNK_SIZE
    /\ Len(PartSizes(last.h)) = 3
    /\ PartSizes(last.h)[3] < CHUNK_SIZE

----------------------------------------------------------------------------
(* Claims about the S3 adapter's preconditions.  What a path names is read  *)
(* off the bucket: a collection is the root or a path with a sentinel, a    *)
(* resource is an object at the path that has no sentinel.                  *)

\* the key of the sentinel of the collection at p
SentinelKey(p) == (IF EndsWith(p, <<SL>>) THEN p ELSE p \o <<SL>>) \o DotDir

CollectionAt(objs, p) == p = <<SL>> \/ SentinelKey(p) \in DOMAIN objs

ResourceAt(objs, p) == ~CollectionAt(objs, p) /\ p \in DOMAIN objs

AbsentAt(objs, p) == ~CollectionAt(objs, p) /\ p \notin DOMAIN objs

\* the path above p, as a resource would be named
Above(p) ==
    LET Up(cs) == IF Len(cs) <= 1 THEN <<SL>> ELSE JoinComponents(DropLast(cs, 1))
    IN Up(Components(p))

\* the parent of p is a resource, under either spelling of its key
ParentResource(objs, p) ==
    /\ ~CollectionAt(objs, Above(p))
    /\ (Above(p) \in DOMAIN objs \/ Above(p) \o <<SL>> \in DOMAIN objs)

ParentAbsent(objs, p) == ~CollectionAt(objs, Above(p)) /\ ~ParentResource(objs, p)

\* the bucket with one more object
WithObject(objs, key, body) ==
    [k \in DOMAIN objs \cup {key} |-> IF k = key THEN body ELSE objs[k]]

\* the bucket without one key
WithoutKey(objs, key) == [k \in DOMAIN objs \ {key} |-> objs[k]]

\* C11: open fails Forbidden on a collection, Exists on a resource when
\* create_new is set, NotFound on an absent path when create is not set; a
\* failing open starts no multipart upload and leaves the bucket unchanged.
C11_OpenPreconditions ==
    [][(last'.op = "open" /\ files[last'.h] = NoFile)
        => /\ CollectionAt(bucket, last'.path) => last'.res = "Forbidden"
           /\ (ResourceAt(bucket, last'.path) /\ last'.options.create_new)
                => last'.res = "Exists"
           /\ (AbsentAt(bucket, last'.path) /\ ~last'.options.create)
                => last'.res = "NotFound"
           /\ last'.res \in {"Forbidden", "Exists", "NotFound"}
                => bucket' = bucket /\ uploads' = uploads]_vars

\* C12: create_dir(P) for a non-root P fails Exists when P is a collection,
\* NotFound when P's parent does not exist, Forbidden when P's parent is a
\* resource, writing nothing when it fails; otherwise it puts a zero-byte
\* object at P/.dir and nothing else.
C12_CreateDirPreconditions ==
    [][(last'.op = "create_dir" /\ last'.path # <<SL>> /\ files' = files)
        => IF CollectionAt(bucket, last'.path)
           THEN last'.res = "Exists" /\ bucket' = bucket
           ELSE IF ParentAbsent(bucket, last'.path)
           THEN last'.res = "NotFound" /\ bucket' = bucket
           ELSE IF ParentResource(bucket, last'.path)
           THEN last'.res = "Forbidden" /\ bucket' = bucket
           ELSE /\ last'.res = "Ok"
                /\ bucket' = WithObject(bucket, SentinelKey(last'.path), <<>>)]_vars

\* C13: create_dir on the bucket root returns Ok.
C13_CreateDirRootSucceeds ==
    (last.op = "create_dir" /\ last.path = <<SL>>) => last.res = "Ok"

\* C14: remove_file(p) returns the error Forbidden when p is a collection and
\* returns an error when p does not exist, deleting nothing in both cases;
\* when p is a resource it deletes key p and no other key.
C14_RemoveFileOutcomes ==
    [][(last'.op = "remove_file" /\ files' = files)
        => IF CollectionAt(bucket, last'.path)
           THEN last'.res = "Forbidden" /\ bucket' = bucket
           ELSE IF AbsentAt(bucket, last'.path)
           THEN last'.res \notin {"Ok", "Panic"} /\ bucket' = bucket
           ELSE last'.res = "Ok" /\ bucket' = WithoutKey(bucket, last'.path)]_vars

\* C15: metadata(p) is a collection exactly when p is the root or p/.dir
\* exists, a resource exactly when no p/.dir exists and an object p exists,
\* and NotFound exactly when neither exists.
C15_MetadataResolution ==
    last.op = "metadata"
        => /\ last.is_dir <=> CollectionAt(bucket, last.path)
           /\ (last.res = "Ok" /\ ~last.is_dir) <=> ResourceAt(bucket, last.path)
           /\ last.res = "NotFound" <=> AbsentAt(bucket, last.path)

-----------------------------------------------------------------------------
\* Claims about what the Memory store returns for a path

\* path q is p itself or lies below the collection p
OnOrBelow(q, p) ==
    \/ q = p
    \/ StartsWith(q, IF p[Len(p)] = SL THEN p ELSE p \o <<SL>>)

\* the paths of the model on which the entry e was stored
Owners(e) == {q \in PropPaths : e.key = get_prop_string(FromDavPath(q), e.prop)}

\* the entries of the store that belong to p or to a path below p
Belonging(data, p) == {e \in data : \E q \in Owners(e) : OnOrBelow(q, p)}

\* C16: get_props(p, _) returns exactly the properties stored on p itself
\* and on paths below p, and never a property of a path that is neither p
\* nor a descendant of p, such as a sibling whose name starts with p's string.
C16_GetPropsOwnOrBelow ==
    last.op = "get_props"
        => {Named(last.found[i]) : i \in DOMAIN last.found}
             = {Named(e.prop) : e \in Belonging(props, last.path)}

-----------------------------------------------------------------------------
\* Claims about errors at the Aggregate

AggregateOps ==
    {"agg_open", "agg_read_dir", "agg_metadata", "agg_create_dir", "agg_remove_file",
     "agg_remove_dir", "agg_rename", "agg_copy"}

\* no mount routes the path, or one of the two paths, of the recorded call
Unrouted(fs, call) ==
    IF call.op \in {"agg_rename", "agg_copy"}
    THEN find_route(fs, call.from).res # "Ok" \/ find_route(fs, call.to).res # "Ok"
    ELSE find_route(fs, call.path).res # "Ok"

RootMetadata(call) == call.op = "agg_metadata" /\ is_root(FromDavPath(call.path))

\* C17: for open, read_dir, metadata on a non-root path, create_dir,
\* remove_file, remove_dir, rename and copy at the Aggregate: when no mount
\* routes the path the call returns NotFound, when the routed backend returns
\* the error E the call returns E, and in neither case a success value.
C17_ErrorsNotRecovered ==
    (last.op \in AggregateOps /\ ~RootMetadata(last))
        => /\ Unrouted(filesystems, last) => last.res = "NotFound"
           /\ last.backend \notin {"none", "Ok"} => last.res = last.backend

-----------------------------------------------------------------------------
\* Claims about the listing of a root that no mount serves

EntryNames(entries) == {entries[i].name : i \in DOMAIN entries}

\* C20: when no mount has prefix `/`, read_dir("/") succeeds with exactly one
\* synthetic collection entry per distinct first segment of the mount
\* prefixes, {s3/, mem/} for the mounts /s3 and /mem, and calls no backend.
C20_MultiMountRootListing ==
    (last.op = "agg_read_dir" /\ last.path = <<SL>> /\ M_root \notin filesystems)
        => /\ last.res = "Ok"
           /\ last.backend = "none"
           /\ \A i \in DOMAIN last.entries :
                 last.entries[i].synthetic /\ last.entries[i].is_dir
           /\ EntryNames(last.entries)
                 = {s \o <<SL>> : s \in SegmentsBelow(filesystems, <<SL>>)}
           /\ Len(last.entries) = Cardinality(SegmentsBelow(filesystems, <<SL>>))
           /\ filesystems = {M_s3, M_mem}
                 => EntryNames(last.entries) = {<<"s", "3", SL>>, <<"m", "e", "m", SL>>}

\* the root listed with the mounts /s3 and /mem
C20_Witness ==
    /\ last.op = "agg_read_dir" /\ last.path = <<SL>>
    /\ filesystems = {M_s3, M_mem}
    /\ EntryNames(last.entries) = {<<"s", "3", SL>>, <<"m", "e", "m", SL>>}
    /\ last.backend = "none"

-----------------------------------------------------------------------------
\* Claims about the file-backed store

\* the properties get_props may return, whatever the order
PropsFound(data, p) == {{v[i] : i \in DOMAIN v} : v \in Memory_get_props(data, p, TRUE)}

\* C18: a store constructed from the dumped file answers as the store that
\* dumped it: get_prop(p, X) returns the same payload for every path p and
\* property X, and get_props(p) returns the same set of properties.
C18_DumpLoadRoundTrip ==
    [][(last'.op = "yaml_new")
        => \A path \in PropPaths :
              /\ \A X \in DavProps :
                    Memory_get_prop(props'.mem, FromDavPath(path), X)
                      = Memory_get_prop(props.mem, FromDavPath(path), X)
              /\ PropsFound(props'.mem, FromDavPath(path))
                    = PropsFound(props.mem, FromDavPath(path))]_vars

-----------------------------------------------------------------------------
\* Claims about the embedded key-value store

\* C19: properties are keyed by path and by (namespace, name) within the
\* path: a patch of X on q leaves get_prop(p, X) as it was for every other
\* path p; setting Y on p leaves get_prop(p, X) as it was for every X with
\* another (namespace, name); get_prop(p, X) is NotFound when X was never
\* set on p.
C19_KeyedByPathAndName ==
    [][/\ (last'.op = "kv_patch_prop")
            => \A p \in PropPaths \ {last'.path} :
                  Kv_get_prop(props', FromDavPath(p), last'.prop)
                    = Kv_get_prop(props, FromDavPath(p), last'.prop)
       /\ (last'.op = "kv_patch_prop" /\ last'.set)
            => \A X \in {Y \in DavProps : Named(Y) # Named(last'.prop)} :
                  Kv_get_prop(props', FromDavPath(last'.path), X)
                    = Kv_get_prop(props, FromDavPath(last'.path), X)
       /\ (last'.op = "kv_get_prop" /\ <<last'.path, Named(last'.prop)>> \notin props.ever)
            => last'.got.res = "NotFound"]_vars

-----------------------------------------------------------------------------
\* Claims about the mount table

\* the routes in every order
RouteOrders(routes) ==
    {[i \in DOMAIN routes |-> routes[p[i]]] : p \in Orders(DOMAIN routes)}

DistinctPrefixes(routes) ==
    \A i, j \in DOMAIN routes : i # j => routes[i].key # routes[j].key

\* C21: add_route of a registered prefix returns an error and leaves the
\* table, with the backend first bound to the prefix, as it was; every prefix
\* of the table has exactly one backend; and neither the table nor any
\* find_route result depends on the order in which distinct prefixes were
\* registered.
C21_MountTableUnique ==
    [][/\ (last'.op = "add_route_fs" /\ last'.route \in RouteKeys(filesystems))
            => last'.res = "Err" /\ filesystems' = filesystems
       /\ (last'.op = "add_route_fs" /\ last'.route \notin RouteKeys(filesystems))
            => /\ last'.res = "Ok"
               /\ filesystems' = filesystems \cup {Binding(last'.route, last'.fs)}
       /\ \A e1, e2 \in filesystems' : e1.key = e2.key => e1 = e2
       /\ (last'.op = "build" /\ DistinctPrefixes(last'.routes))
            => /\ last'.res = "Ok"
               /\ \A other \in RouteOrders(last'.routes) :
                     /\ AggregateBuilder_build({}, other).table = filesystems'
                     /\ \A q \in Requests :
                           find_route_fs(AggregateBuilder_build({}, other).table, q)
                             = find_route_fs(filesystems', q)]_vars

\* a registered prefix offered again with another backend
C21_Witness ==
    /\ last.op = "add_route_fs" /\ last.res = "Err"
    /\ \E e \in filesystems : e.key = last.route /\ e.fs # last.fs
    /\ Cardinality(filesystems) = 2

-----------------------------------------------------------------------------
\* Claims about renames in the S3 adapter

\* the positions of a call in the log of store calls
Positions(log, call) == {i \in DOMAIN log : log[i] = call}

\* C22: rename(from, to) with both paths in resource form deletes the source
\* only after the copy to `to` returned success; when the copy fails the
\* source is left as it was and the call returns the error; on success
\* metadata(from) is NotFound and `to` holds the bytes `from` held.
C22_FileRenameCopyThenDelete ==
    [][(last'.op = "rename" /\ files' = files
          /\ ~is_collection(last'.from) /\ ~is_collection(last'.to))
        => /\ \A i \in Positions(last'.log, <<"delete", last'.from>>) :
                 /\ last'.from \in DOMAIN bucket
                 /\ \E j \in Positions(last'.log, <<"copy", last'.from, last'.to>>) : j < i
           /\ (last'.from \notin DOMAIN bucket) => last'.res # "Ok"
           /\ (last'.res # "Ok" /\ last'.from \in DOMAIN bucket)
                 => last'.from \in DOMAIN bucket' /\ bucket'[last'.from] = bucket[last'.from]
           /\ (last'.res = "Ok")
                 => /\ metadata_info(NewWorld(bucket'), last'.from).res = "NotFound"
                    /\ last'.to \in DOMAIN bucket'
                    /\ bucket'[last'.to] = bucket[last'.from]]_vars

-----------------------------------------------------------------------------
\* Claims about remove_dir in the S3 adapter

\* C23: remove_dir(p) on an existing collection deletes the sentinel p/.dir
\* and leaves every other object, the descendants of p included, as it was;
\* it fails Forbidden when p resolves to a resource and NotFound when p does
\* not exist, and deletes nothing in either case.  The root has no sentinel:
\* nothing is deleted there.
C23_RemoveDirOnlySentinel ==
    [][(last'.op = "remove_dir" /\ files' = files)
        => IF last'.path = <<SL>> THEN bucket' = bucket
           ELSE IF CollectionAt(bucket, last'.path)
           THEN /\ last'.res = "Ok"
                /\ bucket' = WithoutKey(bucket, SentinelKey(last'.path))
           ELSE IF ResourceAt(bucket, last'.path)
           THEN last'.res = "Forbidden" /\ bucket' = bucket
           ELSE last'.res = "NotFound" /\ bucket' = bucket]_vars

-----------------------------------------------------------------------------
\* Claims about the relative path of a routed request

\* C24 as stated: the relative path find_route returns begins with `/` and
\* is in collection form iff the request path is in collection form.
C24_RoutingPreservesForm ==
    (last.op = "find_route" /\ last.found.res = "Ok")
        => /\ Head(last.found.path) = SL
           /\ is_collection(last.found.path) <=> is_collection(last.path)

\* C24: the relative path find_route returns begins with `/`; below the
\* mount prefix it is in collection form iff the request path is, and a
\* request for the mount prefix itself yields `/`, in either form.
C24_RoutingPreservesFormBelowMount ==
    (last.op = "find_route" /\ last.found.res = "Ok")
        => /\ Head(last.found.path) = SL
           /\ IF as_pathbuf(last.path) = last.found.route
              THEN last.found.path = <<SL>>
              ELSE is_collection(last.found.path) <=> is_collection(last.path)

\* a resource below a mount, routed with its form kept
C24_Witness ==
    /\ last.op = "find_route" /\ last.found.res = "Ok"
    /\ last.path = <<"/", "x", "/", "w">> /\ last.found.route = M_x
    /\ last.found.path = <<"/", "w">>

-----------------------------------------------------------------------------
\* Claims about the order of the backend call and the property-store hook

PropsHooked == {"agg_remove_file", "agg_remove_dir", "agg_rename", "agg_copy"}

\* C25: when the backend operation of Aggregate remove_file, remove_dir,
\* rename or copy returns an error, the aggregator returns that error and
\* the content of the property store is unchanged.
C25_PropsHookAfterBackendSuccess ==
    [][(last'.op \in PropsHooked /\ last'.backend \in {"NotFound", "Forbidden"})
        => /\ last'.res = last'.backend
           /\ props' = props]_vars

-----------------------------------------------------------------------------
\* Claims about the multipart protocol

\* the positions of the calls of one kind in an operation's calls
CallsAt(calls, kind) == {i \in DOMAIN calls : calls[i].call = kind}

FailedAt(calls) ==
    {i \in CallsAt(calls, "upload_part") \cup CallsAt(calls, "complete_multipart_upload") :
        ~calls[i].ok}

\* C26: whenever write_bytes, write_buf or flush on a Multipart handle returns
\* GeneralFailure because a part upload or the completion failed, an
\* abort-multipart-upload for the session was issued before the call returned.
C26_AbortOnFailure ==
    (last.op \in {"write_bytes", "flush"} /\ last.res = "GeneralFailure")
        => \A i \in FailedAt(last.calls) :
              \E j \in CallsAt(last.calls, "abort_multipart_upload") : j > i

\* the parts the store holds for a session, as (k, etag_k) in increasing k
StoredParts(session, id) ==
    [k \in 1 .. Cardinality(DOMAIN session.parts) |->
        [etag |-> PartEtag(id, k, session.parts[k]), part_number |-> k]]

\* a write or a flush on a Multipart handle has just acted on handle h: no
\* handle was dropped in the step
MultipartStep(h, before, after) ==
    /\ \A g \in DOMAIN before : before[g] # NoFile => after[g] # NoFile
    /\ before[h] # NoFile
    /\ before[h].kind = "Multipart"

-----------------------------------------------------------------------------
\* Claims about the phases of a rename between collections

\* the positions of the store calls of one kind in a log
LogAt(log, kind) == {i \in DOMAIN log : log[i][1] = kind}

SentinelDeletes(log) == {i \in LogAt(log, "delete") : EndsWith(log[i][2], DotDir)}

\* the collection a sentinel key stands for
DirOf(key) == DropLast(key, Len(DotDir))

\* C28: a rename between collections creates every destination directory
\* before it copies any file, deletes each file's source right after its
\* copy, and removes the source sentinels after all files have moved, a
\* directory's sentinel only after the sentinels of its descendants.
C28_RenamePhases ==
    (last.op = "rename" /\ is_collection(last.from) /\ is_collection(last.to))
        => LET log == last.log
               puts == LogAt(log, "put")
               copies == LogAt(log, "copy")
               sentinels == SentinelDeletes(log)
               moved == LogAt(log, "delete") \ sentinels
           IN /\ \A p \in puts, c \in copies : p < c
              /\ \A c \in copies :
                    IF c = Len(log) THEN last.res # "Ok"
                    ELSE log[c + 1] = <<"delete", log[c][2]>>
              /\ \A s \in sentinels, c \in copies \cup moved : c < s
              /\ \A s \in sentinels, t \in sentinels :
                    (DirOf(log[t][2]) # DirOf(log[s][2])
                        /\ StartsWith(DirOf(log[t][2]), DirOf(log[s][2])))
                    => t < s

-----------------------------------------------------------------------------
\* Claims about renaming a resource onto a collection

\* the keys stored under collection p
StoredUnder(objs, p) == {k \in DOMAIN objs : StartsWith(k, p)}

\* C29: after a successful rename(from, to) with `from` a resource and `to`
\* an existing collection, no object that was stored under to/ remains and
\* `to` in resource form holds the source's content.
C29_RenameOntoCollection ==
    [][(/\ last'.op = "rename" /\ files' = files /\ last'.res = "Ok"
        /\ ~is_collection(last'.from) /\ is_collection(last'.to)
        /\ last'.from \in DOMAIN bucket
        /\ CollectionAt(bucket, last'.to))
        => /\ StoredUnder(bucket, last'.to) \cap DOMAIN bucket' = {}
           /\ as_file(last'.to) \in DOMAIN bucket'
           /\ bucket'[as_file(last'.to)] = bucket[last'.from]]_vars

-----------------------------------------------------------------------------
\* Claims about the names in the bucket

\* C30: starting from an empty bucket, after any sequence of adapter
\* operations the bucket never holds both an object at key P and a sentinel
\* at key P/.dir for the same P.
C30_NameExclusivity ==
    \A P \in DOMAIN bucket : P \o <<SL>> \o DotDir \notin DOMAIN bucket

-----------------------------------------------------------------------------
\* Claims about concurrent writers

\* C31: among the open(p, {write, create, create_new}) calls on an initially
\* absent path p, interleaved with each other's writes and flushes, at most
\* one returns a handle and the others fail Exists; two create_new writers
\* never both flush content to p.
C31_CreateNewExclusive ==
    /\ [](\A g, h \in DOMAIN files :
             (/\ files[g] # NoFile /\ files[h] # NoFile
              /\ files[g].options.create_new /\ files[h].options.create_new
              /\ files[g].path = files[h].path)
             => g = h)
    /\ [][(last'.op = "flush" /\ last'.res = "Ok" /\ last'.create_new
             /\ bucket' # bucket)
          => last'.path \notin DOMAIN bucket]_vars

-----------------------------------------------------------------------------
\* Claims about a failing enumeration in a rename between collections

-----------------------------------------------------------------------------
\* Claims about the Simple handle

\* no handle was dropped in the step
NoneDropped(before, after) == \A g \in DOMAIN before : before[g] # NoFile => after[g] # NoFile

\* a call on a Simple handle has just acted on handle h
SimpleStep(h, before, after) ==
    /\ NoneDropped(before, after)
    /\ before[h] # NoFile
    /\ before[h].kind = "Simple"

Min(a, b) == IF a < b THEN a ELSE b

\* C33: read_bytes(n) on a Simple handle with the cursor at c over a buffer of
\* length L returns exactly the min(n, L-c) bytes buffer[c .. c+min(n, L-c))
\* and advances the cursor by that amount.
C33_SimpleReadBytes ==
    [][(last'.op = "read_bytes" /\ last'.res = "Ok"
         /\ SimpleStep(last'.h, files, files'))
        => LET cursor == files[last'.h].cursor
               k == Min(last'.count, Len(cursor.buf) - cursor.pos)
           IN /\ last'.out = SubSeq(cursor.buf, cursor.pos + 1, cursor.pos + k)
              /\ files'[last'.h].cursor.pos = cursor.pos + k]_vars

\* C34: a write on a Simple handle appends the written bytes to the
\* in-memory buffer, which starts as the object's content, and metadata len
\* stays the length of the buffer that flush puts.
C34_SimpleWriteAppends ==
    [][(last'.op = "write_bytes" /\ SimpleStep(last'.h, files, files'))
        => LET f == files[last'.h]
               g == files'[last'.h]
               b == DropFirst(g.written, Len(f.written))
           IN /\ g.cursor.buf = f.cursor.buf \o b
              /\ (f.len = Len(f.cursor.buf) => g.len = Len(g.cursor.buf))]_vars

-----------------------------------------------------------------------------
\* Claims about the backend a rename or copy is handed to

\* C35: Aggregate rename(from, to) and copy(from, to) call exactly one
\* backend, the one `from` routes to, with the mount-relative paths of `from`
\* and `to`; a different backend that `to` routes to is not called.
C35_DispatchToSourceBackend ==
    (last.op \in {"rename_fs", "copy_fs"} /\ last.res = "Ok")
        => LET f == find_route_fs(filesystems, last.from)
               t == find_route_fs(filesystems, last.to)
           IN /\ Len(last.calls) = 1
              /\ last.calls[1].fs = f.fs
              /\ last.calls[1].from = f.path
              /\ last.calls[1].to = t.path
              /\ t.fs # f.fs => \A i \in DOMAIN last.calls : last.calls[i].fs # t.fs

\* a rename from the mount /x on one backend to the root mount on another
C35_Witness ==
    /\ last.op = "rename_fs" /\ last.res = "Ok"
    /\ find_route_fs(filesystems, last.from).route = M_x
    /\ find_route_fs(filesystems, last.to).route = M_root
    /\ find_route_fs(filesystems, last.from).fs = "s3"
    /\ find_route_fs(filesystems, last.to).fs = "mem"
    /\ last.calls[1].fs = "s3"

-----------------------------------------------------------------------------
\* Claims about seeking on an encrypted handle

\* C36: on a handle opened through EncryptionWrapper, after any sequence of
\* seek and read_bytes calls, the bytes read_bytes returns for file offset k
\* are the plaintext bytes at offset k: the cipher's keystream position is
\* the inner handle's cursor position.
C36_KeystreamFollowsCursor ==
    [][(last'.op = "read_bytes" /\ last'.res = "Ok" /\ last'.wrapped
         /\ SimpleStep(last'.h, files, files'))
        => LET cursor == files[last'.h].cursor
               k == Min(last'.count, Len(cursor.buf) - cursor.pos)
           IN /\ \A i \in 1 .. k :
                    last'.out[i] = BitXor(cursor.buf[cursor.pos + i], enc.ks[cursor.pos + i])
              /\ enc'.cipher[last'.h].pos = files'[last'.h].cursor.pos]_vars

-----------------------------------------------------------------------------
\* Claims about concurrent calls on the file-backed property store

\* C37: under concurrent mutating calls on the file-backed store two dumps
\* never interleave their file writes, and once all calls have returned the
\* file is exactly the serialization of the final in-memory map.
C37_DumpsSerialized ==
    /\ \A s, t \in Tasks :
          (props.tasks[s].pc = "write" /\ props.tasks[t].pc = "write") => s = t
    /\ (last.op = "yaml_returned" /\ \A t \in Tasks : props.tasks[t] = Idle)
          => props.file \in Serializations(props.mem, props.variant)

\* C38: while a patch, a rename or a copy of the store is in flight, what
\* get_prop returns for every path and every property is what it returns on
\* the store as it was when the call was made or what it returns on the store
\* as the whole call leaves it, and the same for the pair of a rename's
\* `from` and `to`: no get_prop sees a state in between.
C38_MutationsAtomic ==
    props.call # NoCall =>
        \/ \A p \in PropPaths, X \in DavProps :
              Kv_get_prop(props, FromDavPath(p), X) = Kv_get_prop(props.pre, FromDavPath(p), X)
        \/ \A p \in PropPaths, X \in DavProps :
              Kv_get_prop(props, FromDavPath(p), X)
                = Kv_get_prop(AfterCall(props.call, props.pre), FromDavPath(p), X)

\* the string has two slashes in a row
HasDoubleSlash(s) == \E i \in 1..(Len(s) - 1) : s[i] = SL /\ s[i + 1] = SL

\* C39: p.strip_prefix(q) is, when p is q followed by s, the path of s, one
\* leading q removed and no more, whether or not s begins with q again; and
\* it is p when p does not begin with q.
C39_StripPrefixOnce ==
    last.op = "strip_prefix" =>
        IF StartsWith(last.self, last.prefix)
        THEN last.out = FromString(DropFirst(last.self, Len(last.prefix)))
        ELSE last.out = last.self

\* C40: for every path and every token join_file returns a path in resource
\* form, join_dir a path in collection form, and neither has `//` in it.
C40_JoinForms ==
    /\ last.op = "join_file" => ~is_collection(last.out) /\ ~HasDoubleSlash(last.out)
    /\ last.op = "join_dir" => is_collection(last.out) /\ ~HasDoubleSlash(last.out)

====
